---- MODULE Spec2Model ----
(***************************************************************************)
(* A model of the file-operations client/server (protocol.py,              *)
(* server_2.7.py, client_2.7.py).                                          *)
(*                                                                         *)
(* Text is modelled as a sequence of one-character strings, so that        *)
(* framing, splitting at the terminator and JSON encoding/decoding work    *)
(* on characters as the Python code does.  A raw byte that is not valid    *)
(* UTF-8 is the element "0xFF".  JSON values are tagged records.           *)
(***************************************************************************)
EXTENDS Integers, Sequences, FiniteSets, TLC

(***************************************************************************)
(* Protocol constants (protocol.py, class Protocol)                        *)
(***************************************************************************)
CMD_DIR ==
    <<"D","I","R">>
CMD_DELETE ==
    <<"D","E","L","E","T","E">>
CMD_COPY ==
    <<"C","O","P","Y">>
CMD_EXECUTE ==
    <<"E","X","E","C","U","T","E">>
CMD_SCREENSHOT ==
    <<"T","A","K","E","_","S","C","R","E","E","N","S","H","O","T">>
CMD_SEND_PHOTO ==
    <<"S","E","N","D","_","P","H","O","T","O">>
CMD_EXIT ==
    <<"E","X","I","T">>
STATUS_SUCCESS ==
    <<"s","u","c","c","e","s","s">>
STATUS_ERROR ==
    <<"e","r","r","o","r">>
MESSAGE_END ==
    <<"<","E","N","D",">">>

(***************************************************************************)
(* Python str operations used by the code: `in`, find, replace, split      *)
(***************************************************************************)
StartsAt(t, i, pat) ==
    /\ i >= 1
    /\ i + Len(pat) - 1 <= Len(t)
    /\ \A j \in 1..Len(pat) : t[i + j - 1] = pat[j]

\* the indexes at which pat occurs in t
Occurrences(t, pat) ==
    {i \in 1..(Len(t) - Len(pat) + 1) : StartsAt(t, i, pat)}

\* a find that returns the last occurrence instead of the first
FindLast(t, pat) ==
    LET hits == Occurrences(t, pat)
    IN  IF hits = {} THEN 0
        ELSE CHOOSE i \in hits : \A j \in hits : i >= j

\* index of the first occurrence of pat in t, 0 when there is none
Find(t, pat) ==
    LET hits == Occurrences(t, pat)
    IN  IF hits = {} THEN 0
        ELSE CHOOSE i \in hits : \A j \in hits : i <= j

\* pat in t
Contains(t, pat) ==
    Find(t, pat) # 0

Drop(t, n) ==
    SubSeq(t, n + 1, Len(t))

Take(t, n) ==
    SubSeq(t, 1, n)

\* t.replace(pat, ""): every non-overlapping occurrence removed, left to right
RECURSIVE RemoveAll(_, _)
RemoveAll(t, pat) ==
    IF ~Contains(t, pat) THEN t
    ELSE LET i == Find(t, pat)
         IN  Take(t, i - 1) \o RemoveAll(Drop(t, i + Len(pat) - 1), pat)

\* a split that drops the text after the terminator
SplitLosing(t, pat) ==
    <<Take(t, Find(t, pat) - 1), <<>>>>

\* t.split(pat, 1) when pat occurs in t: the text before the first
\* occurrence and the text after it
Split(t, pat) ==
    LET k == Find(t, pat)
    IN  <<Take(t, k - 1), Drop(t, k + Len(pat) - 1)>>

(***************************************************************************)
(* JSON values (what json.dumps accepts and json.loads returns)            *)
(***************************************************************************)
JNull ==
    [k |-> "null", s |-> <<>>, n |-> 0, m |-> <<>>]
JBool(b) ==
    [k |-> "bool", s |-> <<>>, n |-> IF b THEN 1 ELSE 0, m |-> <<>>]
JInt(i) ==
    [k |-> "int", s |-> <<>>, n |-> i, m |-> <<>>]
JStr(x) ==
    [k |-> "str", s |-> x, n |-> 0, m |-> <<>>]
\* a list: m is the sequence of its items
JList(items) ==
    [k |-> "list", s |-> <<>>, n |-> 0, m |-> items]
\* a dict: m is the sequence of its <<key, value>> pairs, in insertion order
JObj(pairs) ==
    [k |-> "obj", s |-> <<>>, n |-> 0, m |-> pairs]
EmptyDict ==
    JObj(<<>>)

\* Python truthiness, as used by `params or {}` and `if not file_path`
Truthy(v) ==
    CASE v.k = "null" -> FALSE
      [] v.k = "bool" -> v.n = 1
      [] v.k = "int"  -> v.n # 0
      [] v.k = "str"  -> v.s # <<>>
      [] OTHER        -> v.m # <<>>

\* key in d
HasKey(d, key) ==
    \E i \in 1..Len(d.m) : d.m[i][1] = key

\* d[key] (only used when HasKey(d, key))
DictAt(d, key) ==
    d.m[CHOOSE i \in 1..Len(d.m) : d.m[i][1] = key][2]

\* d.get(key, default)
DictGet(d, key, default) ==
    IF HasKey(d, key) THEN DictAt(d, key) ELSE default

\* d[key] = value: an existing key keeps its place, a new one is appended
DictPut(pairs, key, value) ==
    IF \E i \in 1..Len(pairs) : pairs[i][1] = key
    THEN [i \in 1..Len(pairs) |->
            IF pairs[i][1] = key THEN <<key, value>> ELSE pairs[i]]
    ELSE Append(pairs, <<key, value>>)

(***************************************************************************)
(* json.dumps (default separators ", " and ": ", ensure_ascii)             *)
(***************************************************************************)
Digit(d) ==
    <<"0","1","2","3","4","5","6","7","8","9">>[d + 1]

RECURSIVE IntText(_)
IntText(n) ==
    IF n < 0 THEN <<"-">> \o IntText(0 - n)
    ELSE IF n < 10 THEN <<Digit(n)>>
    ELSE IntText(n \div 10) \o <<Digit(n % 10)>>

\* the escape json.dumps writes for one character of a string
EscapeChar(c) ==
    CASE c = "\"" -> <<"\\", "\"">>
      [] c = "\\" -> <<"\\", "\\">>
      [] c = "\n" -> <<"\\", "n">>
      [] OTHER    -> <<c>>

RECURSIVE EscapeText(_)
EscapeText(s) ==
    IF s = <<>> THEN <<>>
    ELSE EscapeChar(Head(s)) \o EscapeText(Tail(s))

Quote(s) ==
    <<"\"">> \o EscapeText(s) \o <<"\"">>

RECURSIVE json_dumps(_), DumpItems(_), DumpPairs(_)
json_dumps(v) ==
    CASE v.k = "null" -> <<"n","u","l","l">>
      [] v.k = "bool" -> IF v.n = 1 THEN <<"t","r","u","e">>
                                    ELSE <<"f","a","l","s","e">>
      [] v.k = "int"  -> IntText(v.n)
      [] v.k = "str"  -> Quote(v.s)
      [] v.k = "list" -> <<"[">> \o DumpItems(v.m) \o <<"]">>
      [] OTHER        -> <<"{">> \o DumpPairs(v.m) \o <<"}">>

DumpItems(items) ==
    IF items = <<>> THEN <<>>
    ELSE json_dumps(Head(items))
         \o (IF Len(items) > 1 THEN <<",", " ">> ELSE <<>>)
         \o DumpItems(Tail(items))

DumpPairs(pairs) ==
    IF pairs = <<>> THEN <<>>
    ELSE Quote(Head(pairs)[1]) \o <<":", " ">> \o json_dumps(Head(pairs)[2])
         \o (IF Len(pairs) > 1 THEN <<",", " ">> ELSE <<>>)
         \o DumpPairs(Tail(pairs))

(***************************************************************************)
(* json.loads: a recursive-descent parser.  A parse result is              *)
(* [ok, v, i]: whether it succeeded, the value, the index after it.        *)
(* Numbers are integers and \u escapes are rejected: neither a fraction    *)
(* nor a \u escape occurs in the texts of this model.                      *)
(***************************************************************************)
PFail ==
    [ok |-> FALSE, v |-> JNull, i |-> 0]
POk(v, i) ==
    [ok |-> TRUE, v |-> v, i |-> i]

Whitespace ==
    {" ", "\n", "\t", "\r"}
Digits ==
    {"0","1","2","3","4","5","6","7","8","9"}
DigitValue(c) ==
    CHOOSE d \in 0..9 : Digit(d) = c

RECURSIVE SkipWs(_, _)
SkipWs(t, i) ==
    IF i <= Len(t) /\ t[i] \in Whitespace THEN SkipWs(t, i + 1) ELSE i

\* the character a backslash escape stands for ("" when it is no escape)
Unescape(c) ==
    CASE c = "\"" -> "\""
      [] c = "\\" -> "\\"
      [] c = "/"  -> "/"
      [] c = "n"  -> "\n"
      [] c = "t"  -> "\t"
      [] c = "r"  -> "\r"
      [] OTHER    -> ""

\* the rest of a string whose opening quote has been read
\* the first index from i on of a character that ends a run of plain
\* characters of a string: the closing quote, a backslash, or a character
\* no JSON string may hold (0 when there is none)
NextSpecial(t, i) ==
    LET hits == {j \in i..Len(t) : t[j] \in {"\"", "\\", "\n", "\t", "\r", "0xFF"}}
    IN  IF hits = {} THEN 0 ELSE CHOOSE j \in hits : \A k \in hits : j <= k

\* the string that began before i, acc being what was read of it, j the
\* next special character
RECURSIVE ParseString(_, _, _)
ParseStringTo(t, i, acc, j) ==
    IF j = 0 THEN PFail
    ELSE IF t[j] = "\"" THEN POk(JStr(acc \o SubSeq(t, i, j - 1)), j + 1)
    ELSE IF t[j] = "\\"
         THEN IF j + 1 > Len(t) \/ Unescape(t[j + 1]) = "" THEN PFail
              ELSE ParseString(t, j + 2,
                               acc \o SubSeq(t, i, j - 1) \o <<Unescape(t[j + 1])>>)
    ELSE PFail

ParseString(t, i, acc) ==
    ParseStringTo(t, i, acc, NextSpecial(t, i))

RECURSIVE ParseDigits(_, _, _)
ParseDigits(t, i, acc) ==
    IF i <= Len(t) /\ t[i] \in Digits
    THEN ParseDigits(t, i + 1, 10 * acc + DigitValue(t[i]))
    ELSE POk(JInt(acc), i)

\* -?(0|[1-9][0-9]*)
ParseNumber(t, i) ==
    LET neg == t[i] = "-"
        j   == IF neg THEN i + 1 ELSE i
    IN  IF j > Len(t) \/ t[j] \notin Digits THEN PFail
        ELSE LET r == IF t[j] = "0" THEN POk(JInt(0), j + 1)
                      ELSE ParseDigits(t, j, 0)
             IN  IF neg THEN POk(JInt(0 - r.v.n), r.i) ELSE r

ParseLiteral(t, i) ==
    IF StartsAt(t, i, <<"n","u","l","l">>) THEN POk(JNull, i + 4)
    ELSE IF StartsAt(t, i, <<"t","r","u","e">>) THEN POk(JBool(TRUE), i + 4)
    ELSE IF StartsAt(t, i, <<"f","a","l","s","e">>) THEN POk(JBool(FALSE), i + 5)
    ELSE PFail

RECURSIVE ParseValue(_, _), ParseMembers(_, _, _), ParseItems(_, _, _)
\* the value that starts at t[i]
ParseValue(t, i) ==
    IF i > Len(t) THEN PFail
    ELSE IF t[i] = "{"
         THEN LET j == SkipWs(t, i + 1)
              IN  IF j <= Len(t) /\ t[j] = "}" THEN POk(EmptyDict, j + 1)
                  ELSE ParseMembers(t, j, <<>>)
    ELSE IF t[i] = "["
         THEN LET j == SkipWs(t, i + 1)
              IN  IF j <= Len(t) /\ t[j] = "]" THEN POk(JList(<<>>), j + 1)
                  ELSE ParseItems(t, j, <<>>)
    ELSE IF t[i] = "\"" THEN ParseString(t, i + 1, <<>>)
    ELSE IF t[i] = "-" \/ t[i] \in Digits THEN ParseNumber(t, i)
    ELSE ParseLiteral(t, i)

\* after the members read so far (now), at t[e]: "}" closes the object and
\* "," opens the next member
MemberSep(t, e, now) ==
    IF e > Len(t) THEN PFail
    ELSE IF t[e] = "}" THEN POk(JObj(now), e + 1)
    ELSE IF t[e] = "," THEN ParseMembers(t, SkipWs(t, e + 1), now)
    ELSE PFail

\* a member whose key and value (val, a parse result) have been read
MemberValue(t, key, val, acc) ==
    IF ~val.ok THEN PFail
    ELSE MemberSep(t, SkipWs(t, val.i), DictPut(acc, key, val.v))

\* a member whose key (a parse result) has been read
MemberKey(t, key, acc) ==
    IF ~key.ok THEN PFail
    ELSE LET j == SkipWs(t, key.i)
         IN  IF j > Len(t) \/ t[j] # ":" THEN PFail
             ELSE MemberValue(t, key.v.s, ParseValue(t, SkipWs(t, j + 1)), acc)

\* the members of an object from t[i], which must open a key
ParseMembers(t, i, acc) ==
    IF i > Len(t) \/ t[i] # "\"" THEN PFail
    ELSE MemberKey(t, ParseString(t, i + 1, <<>>), acc)

\* after the items read so far (now), at t[e]: "]" closes the array and ","
\* opens the next item
ItemSep(t, e, now) ==
    IF e > Len(t) THEN PFail
    ELSE IF t[e] = "]" THEN POk(JList(now), e + 1)
    ELSE IF t[e] = "," THEN ParseItems(t, SkipWs(t, e + 1), now)
    ELSE PFail

\* an item whose value (val, a parse result) has been read
ItemValue(t, val, acc) ==
    IF ~val.ok THEN PFail
    ELSE ItemSep(t, SkipWs(t, val.i), Append(acc, val.v))

\* the items of an array from t[i]
ParseItems(t, i, acc) ==
    ItemValue(t, ParseValue(t, i), acc)

\* json.loads(text): one value, then nothing but whitespace ("Extra data"
\* otherwise).  [ok |-> FALSE] stands for the JSONDecodeError it raises.
EndOfText(text, r) ==
    IF ~r.ok THEN PFail
    ELSE IF SkipWs(text, r.i) # Len(text) + 1 THEN PFail
    ELSE r

json_loads(text) ==
    EndOfText(text, ParseValue(text, SkipWs(text, 1)))

(***************************************************************************)
(* Protocol.create_request / create_response / parse_message /             *)
(* validate_command                                                        *)
(***************************************************************************)
K_type ==
    <<"t","y","p","e">>
K_command ==
    <<"c","o","m","m","a","n","d">>
K_params ==
    <<"p","a","r","a","m","s">>
K_status ==
    <<"s","t","a","t","u","s">>
K_message ==
    <<"m","e","s","s","a","g","e">>
K_data ==
    <<"d","a","t","a">>
T_request ==
    <<"r","e","q","u","e","s","t">>
T_response ==
    <<"r","e","s","p","o","n","s","e">>

\* params/data are JSON values; JNull is Python's None (the default)
create_request(command, params) ==
    json_dumps(JObj(<< <<K_type, JStr(T_request)>>,
                       <<K_command, JStr(command)>>,
                       <<K_params, IF Truthy(params) THEN params ELSE EmptyDict>> >>))
    \o MESSAGE_END

create_response(status, message, data) ==
    json_dumps(JObj(<< <<K_type, JStr(T_response)>>,
                       <<K_status, JStr(status)>>,
                       <<K_message, JStr(message)>>,
                       <<K_data, IF Truthy(data) THEN data ELSE EmptyDict>> >>))
    \o MESSAGE_END

\* [ok, v]: ok = FALSE when json.loads raises
parse_message(message) ==
    json_loads(RemoveAll(message, MESSAGE_END))

ValidCommands ==
    {CMD_DIR, CMD_DELETE, CMD_COPY, CMD_EXECUTE, CMD_SCREENSHOT,
     CMD_SEND_PHOTO, CMD_EXIT}

\* str.upper and str.lower on the letters
LowerLetters ==
    <<"a","b","c","d","e","f","g","h","i","j","k","l","m",
      "n","o","p","q","r","s","t","u","v","w","x","y","z">>
UpperLetters ==
    <<"A","B","C","D","E","F","G","H","I","J","K","L","M",
      "N","O","P","Q","R","S","T","U","V","W","X","Y","Z">>
MapChar(c, from, to) ==
    IF \E i \in 1..Len(from) : from[i] = c
    THEN to[CHOOSE i \in 1..Len(from) : from[i] = c]
    ELSE c
Upper(text) ==
    [i \in 1..Len(text) |-> MapChar(text[i], LowerLetters, UpperLetters)]
Lower(text) ==
    [i \in 1..Len(text) |-> MapChar(text[i], UpperLetters, LowerLetters)]

\* a validation that compares without regard to case
ValidateIgnoreCase(command) ==
    command.k = "str" /\ Upper(command.s) \in ValidCommands

\* a validation that lets every string through
ValidateAnyString(command) ==
    command.k = "str"

\* command is the parsed JSON value of the "command" field
validate_command(command) ==
    command.k = "str" /\ command.s \in ValidCommands

(***************************************************************************)
(* Texts of the server's messages and keys                                 *)
(***************************************************************************)
M_InvalidCommand ==
    <<"I","n","v","a","l","i","d"," ","c","o","m","m","a","n","d">>
M_Goodbye ==
    <<"G","o","o","d","b","y","e">>
M_UnknownCommand ==
    <<"U","n","k","n","o","w","n"," ","c","o","m","m","a","n","d">>
M_PathNotExist ==
    <<"P","a","t","h"," ","d","o","e","s"," ","n","o","t"," ","e","x","i","s","t",":"," ">>
M_Found ==
    <<"F","o","u","n","d"," ">>
M_FilesIn ==
    <<" ","f","i","l","e","s"," ","i","n"," ">>
M_NoFilePath ==
    <<"N","o"," ","f","i","l","e"," ","p","a","t","h"," ","p","r","o","v","i","d","e","d">>
M_FileDeleted ==
    <<"F","i","l","e"," ","d","e","l","e","t","e","d",":"," ">>
M_FileNotExist ==
    <<"F","i","l","e"," ","d","o","e","s"," ","n","o","t"," ","e","x","i","s","t",":"," ">>
M_MissingSrcDst ==
    <<"M","i","s","s","i","n","g"," ","s","o","u","r","c","e"," ","o","r"," ","d","e","s","t","i","n","a","t","i","o","n">>
M_FileCopied ==
    <<"F","i","l","e"," ","c","o","p","i","e","d",":"," ">>
M_Arrow ==
    <<" ","-",">"," ">>
M_CopyNotExist ==
    <<"S","o","u","r","c","e"," ","o","r"," ","D","e","s","t","i","n","a","t","i","o","n"," ","f","i","l","e"," ","d","o","e","s"," ","n","o","t"," ","e","x","i","s","t",":"," ">>
M_CopyTail ==
    <<"\n"," ","I"," ","T","H","I","N","K"," ","Y","O","U"," ","K","N","O","W"," ","W","H","O"," ","I","T"," ","I","S","!","!","!">>
M_NoProgramPath ==
    <<"N","o"," ","p","r","o","g","r","a","m"," ","p","a","t","h"," ","p","r","o","v","i","d","e","d">>
M_ProgramExecuted ==
    <<"P","r","o","g","r","a","m"," ","e","x","e","c","u","t","e","d",":"," ">>
M_ScreenshotSaved ==
    <<"S","c","r","e","e","n","s","h","o","t"," ","s","a","v","e","d",":"," ">>
M_PhotoReady ==
    <<"P","h","o","t","o"," ","r","e","a","d","y"," ","t","o"," ","s","e","n","d",":"," ">>
K_files ==
    <<"f","i","l","e","s">>
K_count ==
    <<"c","o","u","n","t">>
K_path ==
    <<"p","a","t","h">>
K_file_path ==
    <<"f","i","l","e","_","p","a","t","h">>
K_source ==
    <<"s","o","u","r","c","e">>
K_destination ==
    <<"d","e","s","t","i","n","a","t","i","o","n">>
K_program_path ==
    <<"p","r","o","g","r","a","m","_","p","a","t","h">>
K_save_path ==
    <<"s","a","v","e","_","p","a","t","h">>
K_image_path ==
    <<"i","m","a","g","e","_","p","a","t","h">>
K_size ==
    <<"s","i","z","e">>
P_screen ==
    <<"s","c","r","e","e","n",".","j","p","g">>
P_cwd ==
    <<".">>

\* str(e) of the exceptions the code turns into messages (the texts are
\* abbreviated; KeyError's is exact)
E_KeyCommand ==
    <<"'","c","o","m","m","a","n","d","'">>
E_Json ==
    <<"E","x","p","e","c","t","i","n","g"," ","v","a","l","u","e">>
E_Type ==
    <<"T","y","p","e","E","r","r","o","r">>
E_Attr ==
    <<"o","b","j","e","c","t"," ","h","a","s"," ","n","o"," ","a","t","t","r","i","b","u","t","e"," ","'","g","e","t","'">>
E_OS ==
    <<"O","S","E","r","r","o","r">>
E_Unicode ==
    <<"'","u","t","f","-","8","'"," ","c","o","d","e","c"," ","c","a","n","'","t"," ","d","e","c","o","d","e"," ","b","y","t","e"," ","0","x","f","f">>

(***************************************************************************)
(* The server's working directory: a sequence of <<name, content>> in      *)
(* directory order.  "." is the directory itself.                          *)
(***************************************************************************)
FileExists(fs, name) ==
    \E i \in 1..Len(fs) : fs[i][1] = name

FileContent(fs, name) ==
    fs[CHOOSE i \in 1..Len(fs) : fs[i][1] = name][2]

\* os.path.exists
PathExists(fs, path) ==
    path = P_cwd \/ FileExists(fs, path)

FsRemove(fs, name) ==
    SelectSeq(fs, LAMBDA e : e[1] # name)

FsWrite(fs, name, content) ==
    DictPut(fs, name, content)

\* fnmatch of a directory entry against "*.*" (glob skips hidden names)
MatchesStarDotStar(name) ==
    /\ name # <<>>
    /\ name[1] # "."
    /\ \E i \in 1..Len(name) : name[i] = "."

\* glob.glob(os.path.join(path, '*.*'))
RECURSIVE GlobEntries(_)
GlobEntries(fs) ==
    IF fs = <<>> THEN <<>>
    ELSE (IF MatchesStarDotStar(Head(fs)[1])
          THEN <<JStr(<<".", "/">> \o Head(fs)[1])>> ELSE <<>>)
         \o GlobEntries(Tail(fs))

Glob(fs, path) ==
    IF path = P_cwd THEN GlobEntries(fs) ELSE <<>>

EndsWith(t, suffix) ==
    Len(t) >= Len(suffix) /\ Drop(t, Len(t) - Len(suffix)) = suffix

\* the pixels pyautogui.screenshot() captures
ScreenBytes ==
    <<"0xFF", "s">>

(***************************************************************************)
(* Command handlers (server_2.7.py).  A handler result is the dict the     *)
(* handler returns plus the directory it leaves: data = JNull and          *)
(* hasBinary = FALSE stand for an absent 'data' / 'binary' key.            *)
(***************************************************************************)
Result(status, message, data, fs) ==
    [status |-> status, message |-> message, data |-> data,
     hasBinary |-> FALSE, binary |-> <<>>, fs |-> fs]

NoFiles ==
    JObj(<< <<K_files, JList(<<>>)>> >>)

cmd_dir(fs, path) ==
    IF path.k # "str" THEN Result(STATUS_ERROR, E_Type, NoFiles, fs)
    ELSE IF ~PathExists(fs, path.s)
    THEN Result(STATUS_ERROR, M_PathNotExist \o path.s, NoFiles, fs)
    ELSE LET files_list == Glob(fs, path.s)
         IN  Result(STATUS_SUCCESS,
                    M_Found \o IntText(Len(files_list)) \o M_FilesIn \o path.s,
                    JObj(<< <<K_files, JList(files_list)>>,
                            <<K_count, JInt(Len(files_list))>> >>),
                    fs)

cmd_delete(fs, file_path) ==
    IF ~Truthy(file_path) THEN Result(STATUS_ERROR, M_NoFilePath, JNull, fs)
    ELSE IF file_path.k # "str" THEN Result(STATUS_ERROR, E_Type, JNull, fs)
    ELSE IF PathExists(fs, file_path.s)
    THEN IF file_path.s = P_cwd
         THEN Result(STATUS_ERROR, E_OS, JNull, fs)
         ELSE Result(STATUS_SUCCESS, M_FileDeleted \o file_path.s, JNull,
                     FsRemove(fs, file_path.s))
    ELSE Result(STATUS_ERROR, M_FileNotExist \o file_path.s, JNull, fs)

cmd_copy(fs, source, destination) ==
    IF ~Truthy(source) \/ ~Truthy(destination)
    THEN Result(STATUS_ERROR, M_MissingSrcDst, JNull, fs)
    ELSE IF source.k # "str" \/ destination.k # "str"
    THEN Result(STATUS_ERROR, E_Type, JNull, fs)
    ELSE IF PathExists(fs, source.s) /\ PathExists(fs, destination.s)
    THEN \* shutil.copy raises for a directory source and for the same file
         IF source.s = P_cwd \/ destination.s = P_cwd \/ source.s = destination.s
         THEN Result(STATUS_ERROR, E_OS, JNull, fs)
         ELSE Result(STATUS_SUCCESS,
                     M_FileCopied \o source.s \o M_Arrow \o destination.s, JNull,
                     FsWrite(fs, destination.s, FileContent(fs, source.s)))
    ELSE Result(STATUS_ERROR,
                M_CopyNotExist \o source.s \o <<",">> \o destination.s \o M_CopyTail,
                JNull, fs)

\* subprocess.Popen starts a program that exists and raises otherwise
cmd_execute(fs, program_path) ==
    IF ~Truthy(program_path) THEN Result(STATUS_ERROR, M_NoProgramPath, JNull, fs)
    ELSE IF program_path.k = "str" /\ FileExists(fs, program_path.s)
    THEN Result(STATUS_SUCCESS, M_ProgramExecuted \o program_path.s, JNull, fs)
    ELSE Result(STATUS_ERROR, E_OS, JNull, fs)

\* image.save picks the format from the extension and raises on another one
cmd_screenshot(fs, save_path) ==
    IF save_path.k = "str" /\ EndsWith(save_path.s, <<".","j","p","g">>)
    THEN Result(STATUS_SUCCESS, M_ScreenshotSaved \o save_path.s,
                JObj(<< <<K_path, save_path>> >>),
                FsWrite(fs, save_path.s, ScreenBytes))
    ELSE Result(STATUS_ERROR, E_OS, JNull, fs)

\* a handler that sends the photo without announcing its size
cmd_send_photo_NoSize(fs, image_path) ==
    IF image_path.k = "str" /\ FileExists(fs, image_path.s)
    THEN [status |-> STATUS_SUCCESS,
          message |-> M_PhotoReady \o image_path.s,
          data |-> JNull,
          hasBinary |-> TRUE, binary |-> FileContent(fs, image_path.s), fs |-> fs]
    ELSE Result(STATUS_ERROR, E_OS, JNull, fs)

cmd_send_photo(fs, image_path) ==
    IF image_path.k = "str" /\ FileExists(fs, image_path.s)
    THEN LET binary_data == FileContent(fs, image_path.s)
         IN  [status |-> STATUS_SUCCESS,
              message |-> M_PhotoReady \o image_path.s,
              data |-> JObj(<< <<K_size, JInt(Len(binary_data))>> >>),
              hasBinary |-> TRUE, binary |-> binary_data, fs |-> fs]
    ELSE Result(STATUS_ERROR, E_OS, JNull, fs)

\* the handler execute_command calls for a command ("none": no handler)
HandlerOf(command) ==
    CASE command = CMD_DIR -> "cmd_dir"
      [] command = CMD_DELETE -> "cmd_delete"
      [] command = CMD_COPY -> "cmd_copy"
      [] command = CMD_EXECUTE -> "cmd_execute"
      [] command = CMD_SCREENSHOT -> "cmd_screenshot"
      [] command = CMD_SEND_PHOTO -> "cmd_send_photo"
      [] OTHER -> "none"

\* a dispatcher that lists the directory for every command it does not know
ExecuteDefaultsToDir(fs, command, params) ==
    IF command = CMD_EXIT
    THEN [raised |-> FALSE, handler |-> "none",
          res |-> Result(STATUS_SUCCESS, M_Goodbye, JNull, fs)]
    ELSE [raised |-> FALSE, handler |-> "cmd_dir",
          res |-> cmd_dir(fs, DictGet(params, K_path, JStr(P_cwd)))]

\* execute_command(command, params): [raised, handler, res].  params.get
\* raises AttributeError when params is not a dict; EXIT and an unknown
\* command never read params.
execute_command(fs, command, params) ==
    LET get(key, default) == DictGet(params, key, default)
        needsParams == command \in (ValidCommands \ {CMD_EXIT})
    IN  IF needsParams /\ params.k # "obj"
        THEN [raised |-> TRUE, handler |-> "none",
              res |-> Result(STATUS_ERROR, E_Attr, JNull, fs)]
        ELSE [raised |-> FALSE, handler |-> HandlerOf(command),
              res |->
                CASE command = CMD_DIR -> cmd_dir(fs, get(K_path, JStr(P_cwd)))
                  [] command = CMD_DELETE -> cmd_delete(fs, get(K_file_path, JNull))
                  [] command = CMD_COPY ->
                        cmd_copy(fs, get(K_source, JNull), get(K_destination, JNull))
                  [] command = CMD_EXECUTE ->
                        cmd_execute(fs, get(K_program_path, JNull))
                  [] command = CMD_SCREENSHOT ->
                        cmd_screenshot(fs, get(K_save_path, JStr(P_screen)))
                  [] command = CMD_SEND_PHOTO ->
                        cmd_send_photo(fs, get(K_image_path, JNull))
                  [] command = CMD_EXIT ->
                        Result(STATUS_SUCCESS, M_Goodbye, JNull, fs)
                  [] OTHER -> Result(STATUS_ERROR, M_UnknownCommand, JNull, fs)]

(***************************************************************************)
(* FileOperationsServer.handle_client: what the try-block does with one    *)
(* extracted frame.  kind is "invalid" (validate_command failed),          *)
(* "handled" (execute_command returned) or "raised" (an exception reached  *)
(* the except clause, err being str(e)); called tells whether              *)
(* execute_command was invoked.                                            *)
(***************************************************************************)
Raised(fs, called, err) ==
    [kind |-> "raised", called |-> called, resp |-> <<>>, hasBinary |-> FALSE,
     binary |-> <<>>, exit |-> FALSE, fs |-> fs, err |-> err]

\* result.get('data', {})
ResultData(res) ==
    IF res.data = JNull THEN EmptyDict ELSE res.data

\* a loop that does not leave on EXIT
NeverExit(command) ==
    FALSE

\* `if command == Protocol.CMD_EXIT: break`
IsExit(command) ==
    command = CMD_EXIT

\* lines 120-138: the response to a command execute_command has run
\* (r = [raised, res])
Respond(fs, command, r) ==
    IF r.raised THEN Raised(fs, TRUE, r.res.message)
    ELSE [kind |-> "handled", called |-> TRUE,
          resp |-> create_response(r.res.status, r.res.message, ResultData(r.res)),
          hasBinary |-> r.res.hasBinary, binary |-> r.res.binary,
          exit |-> IsExit(command), fs |-> r.res.fs, err |-> <<>>]

\* lines 107-120: validate_command, then execute_command
Dispatch(fs, command, params) ==
    \* `command in valid_commands` raises on an unhashable value
    IF command.k \in {"list", "obj"} THEN Raised(fs, FALSE, E_Type)
    ELSE IF ~validate_command(command)
    THEN [kind |-> "invalid", called |-> FALSE,
          resp |-> create_response(STATUS_ERROR, M_InvalidCommand, JNull),
          hasBinary |-> FALSE, binary |-> <<>>, exit |-> FALSE,
          fs |-> fs, err |-> <<>>]
    ELSE Respond(fs, command.s, execute_command(fs, command.s, params))

\* a try-block that answers a frame it cannot decode like an invalid
\* command and goes on
HandleRequestLenient(fs, request) ==
    IF ~request.ok \/ request.v.k # "obj" \/ ~HasKey(request.v, K_command)
    THEN [kind |-> "invalid", called |-> FALSE,
          resp |-> create_response(STATUS_ERROR, M_InvalidCommand, JNull),
          hasBinary |-> FALSE, binary |-> <<>>, exit |-> FALSE,
          fs |-> fs, err |-> <<>>]
    ELSE Dispatch(fs, DictAt(request.v, K_command),
                  DictGet(request.v, K_params, EmptyDict))

\* lines 103-104: request['command'], request.get('params', {}) of the
\* parsed request (a parse result)
HandleRequest(fs, request) ==
    IF ~request.ok THEN Raised(fs, FALSE, E_Json)
    ELSE IF request.v.k # "obj" THEN Raised(fs, FALSE, E_Type)
    ELSE IF ~HasKey(request.v, K_command) THEN Raised(fs, FALSE, E_KeyCommand)
    ELSE Dispatch(fs, DictAt(request.v, K_command),
                  DictGet(request.v, K_params, EmptyDict))

ProcessFrame(fs, message) ==
    HandleRequest(fs, parse_message(message \o MESSAGE_END))

RECV_SIZE == 4096

Min(a, b) ==
    IF a <= b THEN a ELSE b

\* bytes.decode('utf-8') raises on a byte that is not UTF-8
Decodable(data) ==
    \A i \in 1..Len(data) : data[i] # "0xFF"

\* socket.send(text) on a socket that accepts all but `short` of the bytes
\* offered (at least one): the bytes that reach the wire
SendAccepts(text, short) ==
    IF Len(text) <= short THEN Take(text, Min(Len(text), 1))
    ELSE Take(text, Len(text) - short)

\* Protocol.send_binary: send is repeated on the rest until all is sent
RECURSIVE send_binary(_, _)
send_binary(binary_data, short) ==
    IF binary_data = <<>> THEN <<>>
    ELSE LET part == SendAccepts(binary_data, short)
         IN  part \o send_binary(Drop(binary_data, Len(part)), short)

(***************************************************************************)
(* State                                                                   *)
(***************************************************************************)
VARIABLES
    srvPc,      \* server: "recv" (in handle_client's loop) or "closed"
    buffer,     \* handle_client's buffer
    files,      \* the server's working directory
    c2s,        \* bytes written to the server that it has not read
    s2c,        \* bytes the server's socket has accepted, not yet read
    peerClosed, \* the peer has closed its end of the connection
    stream,     \* the frames written to the server, in order
    log,        \* one entry per frame the server extracted
    connected,  \* client: self.connected
    sock,       \* client: self.socket: "None", "socket" (a socket object) or
                \* "closed" (a socket object that was closed)
    cliPc,      \* client: "idle", "await" (send_command's loop), "binary"
    cliReq,     \* client: the request send_command is working on
    cliBuf,     \* client: send_command's buffer
    cliResp,    \* client: the parsed response while receive_binary runs
    cliBin,     \* client: receive_binary's data
    results,    \* client: what send_command returned, call by call
    codecPc,    \* codec harness: "start", "encoded", "decoded"
    codecIn,    \* codec harness: the message to encode
    codecWire,  \* codec harness: the encoded text
    codecOut    \* codec harness: the result of parse_message

srvVars == <<srvPc, buffer, files, c2s, s2c, peerClosed, stream, log>>
cliVars == <<connected, sock, cliPc, cliReq, cliBuf, cliResp, cliBin, results>>
codecVars == <<codecPc, codecIn, codecWire, codecOut>>
vars == <<srvPc, buffer, files, c2s, s2c, peerClosed, stream, log,
          connected, sock, cliPc, cliReq, cliBuf, cliResp, cliBin, results,
          codecPc, codecIn, codecWire, codecOut>>

(***************************************************************************)
(* handle_client: one iteration of the loop, from recv to the next recv    *)
(* or to the close of the client socket                                    *)
(***************************************************************************)
\* a send raises only on a connection the peer has closed
SendOutcomes ==
    IF peerClosed THEN BOOLEAN ELSE {TRUE}

\* the sizes recv(RECV_SIZE) may return when the bytes in flight arrive in
\* any split
AnySplit(wire) ==
    1..Min(Len(wire), RECV_SIZE)

\* the sizes recv may return when the bytes arrive frame by frame: one or
\* more whole frames
WholeFrames(wire) ==
    {n \in AnySplit(wire) : EndsWith(Take(wire, n), MESSAGE_END)}

\* the except clause: str(e) goes into an error response, sent best-effort
ErrorResponse(err) ==
    create_response(STATUS_ERROR, err, JNull)

\* .decode raised on the received data: error response, break
ServeUndecodable(sendOk, short) ==
    /\ s2c' = IF sendOk THEN s2c \o SendAccepts(ErrorResponse(E_Unicode), short)
              ELSE s2c
    /\ srvPc' = "closed"
    /\ UNCHANGED <<buffer, files, log>>

\* the frame `message` was split off the buffer, `rest` stays in it, and
\* `out` is what the try-block made of the frame; sendOk tells whether the
\* sends succeed and short is the shortfall of a send
ServeFrame(message, rest, out, sendOk, short) ==
    LET raised   == out.kind = "raised" \/ ~sendOk
        errResp  == IF ~raised THEN <<>>
                    ELSE ErrorResponse(IF out.kind = "raised" THEN out.err ELSE E_OS)
        sentResp == IF out.kind # "raised" /\ sendOk
                    THEN SendAccepts(out.resp, short) ELSE <<>>
        hasBin   == out.kind = "handled" /\ sendOk /\ out.hasBinary
        sentBin  == IF hasBin THEN send_binary(out.binary, short) ELSE <<>>
        sentErr  == IF out.kind = "raised" /\ sendOk
                    THEN SendAccepts(errResp, short) ELSE <<>>
        open     == ~raised /\ ~out.exit
    IN  /\ buffer' = rest
        /\ files' = out.fs
        /\ s2c' = s2c \o sentResp \o sentBin \o sentErr
        /\ srvPc' = IF open THEN "recv" ELSE "closed"
        /\ log' = Append(log,
                    [frame |-> message, kind |-> out.kind, called |-> out.called,
                     resp |-> out.resp,
                     bin |-> IF hasBin THEN out.binary ELSE <<>>,
                     errResp |-> errResp,
                     sent |-> sentResp \o sentBin \o sentErr,
                     ioerr |-> ~sendOk, open |-> open])

\* `message, buffer = buffer.split(Protocol.MESSAGE_END, 1)` gave parts
ServeSplit(parts, sendOk, short) ==
    ServeFrame(parts[1], parts[2], ProcessFrame(files, parts[1]), sendOk, short)

\* buf is the buffer after `buffer += data`
ServeBuffer(buf, sendOk, short) ==
    IF ~Contains(buf, MESSAGE_END)
    THEN /\ buffer' = buf
         /\ UNCHANGED <<srvPc, files, s2c, log>>
    ELSE ServeSplit(Split(buf, MESSAGE_END), sendOk, short)

\* recv returned data of one of the sizes; shorts are the shortfalls a
\* socket.send may have
HandleClientRecv(sizes, shorts) ==
    /\ srvPc = "recv"
    /\ c2s # <<>>
    /\ \E n \in sizes, sendOk \in SendOutcomes, short \in shorts :
        /\ c2s' = Drop(c2s, n)
        /\ IF ~Decodable(Take(c2s, n))
           THEN ServeUndecodable(sendOk, short)
           ELSE ServeBuffer(buffer \o Take(c2s, n), sendOk, short)
    /\ UNCHANGED <<peerClosed, stream>>

\* a loop that, when recv returns no data, serves what the buffer holds as
\* if it were a frame
HandleClientEofFlush ==
    /\ srvPc = "recv"
    /\ c2s = <<>>
    /\ peerClosed
    /\ IF buffer = <<>>
       THEN /\ srvPc' = "closed"
            /\ UNCHANGED <<buffer, files, s2c, log>>
       ELSE ServeFrame(buffer, <<>>, ProcessFrame(files, buffer), TRUE, 0)
    /\ UNCHANGED <<c2s, peerClosed, stream>>

\* recv returned no data: the peer has closed and everything was read
HandleClientEof ==
    /\ srvPc = "recv"
    /\ c2s = <<>>
    /\ peerClosed
    /\ srvPc' = "closed"
    /\ UNCHANGED <<buffer, files, c2s, s2c, peerClosed, stream, log>>

\* the peer closes its end
PeerClose ==
    /\ ~peerClosed
    /\ peerClosed' = TRUE
    /\ UNCHANGED <<srvPc, buffer, files, c2s, s2c, stream, log>>

\* recv raised (the peer reset the connection): error response sent
\* best-effort, break
HandleClientRecvError ==
    /\ srvPc = "recv"
    /\ peerClosed
    /\ \E sendOk \in BOOLEAN :
        s2c' = IF sendOk THEN s2c \o ErrorResponse(E_OS) ELSE s2c
    /\ srvPc' = "closed"
    /\ UNCHANGED <<buffer, files, c2s, peerClosed, stream, log>>

(***************************************************************************)
(* FileOperationsClient (client_2.7.py).  send_command is followed from    *)
(* one recv to the next: "await" is its loop on the response frame and     *)
(* "binary" is Protocol.receive_binary's loop.                             *)
(***************************************************************************)
M_NotConnected ==
    <<"N","o","t"," ","c","o","n","n","e","c","t","e","d"," ","t","o"," ","s","e","r","v","e","r">>

\* wrapper: the method that called send_command ("send_command" when it
\* was called as it is)
NoRequest ==
    [command |-> <<>>, params |-> JNull, wrapper |-> "none"]

\* {'status': Protocol.STATUS_ERROR, 'message': ...}
ErrorResult(message) ==
    JObj(<< <<K_status, JStr(STATUS_ERROR)>>, <<K_message, JStr(message)>> >>)

\* send_command returns: the call is recorded with the dict it returned
\* (binary stands for the 'binary' entry, when hasBinary; wrote tells
\* whether the request was written to the socket)
Return(result, hasBinary, binary) ==
    /\ results' = Append(results, [command |-> cliReq.command,
                                   params |-> cliReq.params,
                                   wrapper |-> cliReq.wrapper,
                                   wrote |-> TRUE, result |-> result,
                                   hasBinary |-> hasBinary, binary |-> binary])
    /\ cliPc' = "idle"
    /\ cliReq' = NoRequest
    /\ cliBuf' = <<>>
    /\ cliResp' = JNull
    /\ cliBin' = <<>>

\* a disconnect that closes an open socket and forgets a closed one
DisconnectDropsSocket(client) ==
    IF client.sock = "socket" THEN [connected |-> FALSE, sock |-> "closed"]
    ELSE IF client.sock = "closed" THEN [connected |-> TRUE, sock |-> "None"]
    ELSE client

\* disconnect() on the fields of the client: `if self.socket:` close it
\* (closing a closed socket does nothing) and clear the flag
disconnect(client) ==
    IF client.sock # "None" THEN [connected |-> FALSE, sock |-> "closed"]
    ELSE client

\* disconnect() as a step: a connection, when there is one, is closed with
\* the socket
Disconnected ==
    /\ connected' = disconnect([connected |-> connected, sock |-> sock]).connected
    /\ sock' = disconnect([connected |-> connected, sock |-> sock]).sock
    /\ peerClosed' = (peerClosed \/ (connected /\ sock = "socket"))

\* an exit_command that returns send_command's result without disconnect()
ExitKeepsConnection ==
    UNCHANGED <<connected, sock, peerClosed>>

\* send_command has returned (cliPc' = "idle") to exit_command, which calls
\* disconnect(); to any other caller nothing follows
WrapperEnds ==
    IF cliReq.wrapper = "exit_command" /\ cliPc' = "idle"
    THEN Disconnected
    ELSE UNCHANGED <<connected, sock, peerClosed>>

\* connect() succeeds
Connect ==
    /\ ~connected
    /\ ~peerClosed
    /\ cliPc = "idle"
    /\ sock' = "socket"
    /\ connected' = TRUE
    /\ UNCHANGED <<cliPc, cliReq, cliBuf, cliResp, cliBin, results>>
    /\ UNCHANGED srvVars

\* connect() fails: socket.connect raised after the socket was created
ConnectFail ==
    /\ ~connected
    /\ cliPc = "idle"
    /\ sock' = "socket"
    /\ UNCHANGED <<connected, cliPc, cliReq, cliBuf, cliResp, cliBin, results>>
    /\ UNCHANGED srvVars

\* a send_command without the check of the flag: the send on the missing or
\* unconnected socket raises and str(e) is returned
SendCommandUnchecked(command, params) ==
    /\ cliPc = "idle"
    /\ IF ~connected
       THEN /\ results' = Append(results, [command |-> command, params |-> params,
                                           wrapper |-> "send_command",
                                           wrote |-> FALSE,
                                           result |-> ErrorResult(E_OS),
                                           hasBinary |-> FALSE, binary |-> <<>>])
            /\ cliReq' = NoRequest
            /\ UNCHANGED <<connected, sock, cliPc, cliBuf, cliResp, cliBin>>
            /\ UNCHANGED srvVars
       ELSE /\ cliReq' = [command |-> command, params |-> params,
                          wrapper |-> "send_command"]
            /\ c2s' = c2s \o create_request(command, params)
            /\ stream' = Append(stream, create_request(command, params))
            /\ cliPc' = "await"
            /\ cliBuf' = <<>>
            /\ UNCHANGED <<connected, sock, cliResp, cliBin, results>>
            /\ UNCHANGED <<srvPc, buffer, files, s2c, peerClosed, log>>

\* send_command(command, params) up to its first recv
SendCommand(command, params) ==
    /\ cliPc = "idle"
    /\ IF ~connected
       THEN /\ results' = Append(results, [command |-> command, params |-> params,
                                           wrapper |-> "send_command",
                                           wrote |-> FALSE,
                                           result |-> ErrorResult(M_NotConnected),
                                           hasBinary |-> FALSE, binary |-> <<>>])
            /\ cliReq' = NoRequest
            /\ UNCHANGED <<connected, sock, cliPc, cliBuf, cliResp, cliBin>>
            /\ UNCHANGED srvVars
       ELSE /\ cliReq' = [command |-> command, params |-> params,
                          wrapper |-> "send_command"]
            /\ c2s' = c2s \o create_request(command, params)
            /\ stream' = Append(stream, create_request(command, params))
            /\ cliPc' = "await"
            /\ cliBuf' = <<>>
            /\ UNCHANGED <<connected, sock, cliResp, cliBin, results>>
            /\ UNCHANGED <<srvPc, buffer, files, s2c, peerClosed, log>>

\* exit_command(): send_command(CMD_EXIT) up to its first recv, or, on a
\* client that is not connected, the whole of it: the error result and
\* disconnect()
exit_command ==
    /\ cliPc = "idle"
    /\ IF ~connected
       THEN /\ results' = Append(results, [command |-> CMD_EXIT, params |-> JNull,
                                           wrapper |-> "exit_command",
                                           wrote |-> FALSE,
                                           result |-> ErrorResult(M_NotConnected),
                                           hasBinary |-> FALSE, binary |-> <<>>])
            /\ cliReq' = NoRequest
            /\ Disconnected
            /\ UNCHANGED <<cliPc, cliBuf, cliResp, cliBin>>
            /\ UNCHANGED <<srvPc, buffer, files, c2s, s2c, stream, log>>
       ELSE /\ cliReq' = [command |-> CMD_EXIT, params |-> JNull,
                          wrapper |-> "exit_command"]
            /\ c2s' = c2s \o create_request(CMD_EXIT, JNull)
            /\ stream' = Append(stream, create_request(CMD_EXIT, JNull))
            /\ cliPc' = "await"
            /\ cliBuf' = <<>>
            /\ UNCHANGED <<connected, sock, cliResp, cliBin, results>>
            /\ UNCHANGED <<srvPc, buffer, files, s2c, peerClosed, log>>

\* receive_binary(sock, size) has all it waits for, or the socket closed
BinaryDone(response, data) ==
    Return(response, TRUE, data)

\* lines 89-96, response being what parse_message returned (a parse result)
GotResponse(response) ==
    IF ~response.ok THEN Return(ErrorResult(E_Json), FALSE, <<>>)
    ELSE IF response.v.k # "obj" THEN Return(ErrorResult(E_Attr), FALSE, <<>>)
    ELSE IF DictGet(response.v, K_data, EmptyDict).k # "obj"
    THEN Return(ErrorResult(E_Attr), FALSE, <<>>)
    ELSE IF ~Truthy(DictGet(DictGet(response.v, K_data, EmptyDict), K_size, JNull))
    THEN Return(response.v, FALSE, <<>>)
    ELSE IF DictAt(DictAt(response.v, K_data), K_size).k # "int"
    THEN Return(ErrorResult(E_Type), FALSE, <<>>)
    ELSE IF DictAt(DictAt(response.v, K_data), K_size).n <= 0
    THEN BinaryDone(response.v, <<>>)
    ELSE /\ cliPc' = "binary"
         /\ cliResp' = response.v
         /\ cliBin' = <<>>
         /\ cliBuf' = <<>>
         /\ UNCHANGED <<cliReq, results>>

\* lines 77-85: data is what recv returned, decoded
GotData(buf) ==
    IF ~Contains(buf, MESSAGE_END)
    THEN /\ cliBuf' = buf
         /\ UNCHANGED <<cliPc, cliReq, cliResp, cliBin, results>>
    ELSE GotResponse(parse_message(buf))

\* one recv of send_command's loop that returns data
ClientRecv(sizes) ==
    /\ cliPc = "await"
    /\ s2c # <<>>
    /\ \E n \in sizes :
        /\ s2c' = Drop(s2c, n)
        /\ IF ~Decodable(Take(s2c, n))
           THEN Return(ErrorResult(E_Unicode), FALSE, <<>>)
           ELSE GotData(cliBuf \o Take(s2c, n))
    /\ UNCHANGED <<srvPc, buffer, files, c2s, stream, log>>
    /\ WrapperEnds

\* recv returns no data once the server has closed the socket: the loop
\* breaks and the buffer is parsed as it is
ClientRecvEof ==
    /\ cliPc = "await"
    /\ s2c = <<>>
    /\ srvPc = "closed"
    /\ GotResponse(parse_message(cliBuf))
    /\ WrapperEnds
    /\ UNCHANGED <<srvPc, buffer, files, c2s, s2c, stream, log>>

\* one recv of receive_binary's loop that returns data: recv(4096) returns
\* what has arrived, whatever the number of bytes still missing
ReceiveBinary(sizes) ==
    /\ cliPc = "binary"
    /\ s2c # <<>>
    /\ \E n \in sizes :
        /\ s2c' = Drop(s2c, n)
        /\ IF Len(cliBin) + n >= DictAt(DictAt(cliResp, K_data), K_size).n
           THEN BinaryDone(cliResp, cliBin \o Take(s2c, n))
           ELSE /\ cliBin' = cliBin \o Take(s2c, n)
                /\ UNCHANGED <<cliPc, cliReq, cliBuf, cliResp, results>>
    /\ UNCHANGED <<srvPc, buffer, files, c2s, stream, log>>
    /\ WrapperEnds

\* a receive_binary that fills the block up to the size asked for when the
\* peer has closed
ReceiveBinaryPads ==
    /\ cliPc = "binary"
    /\ s2c = <<>>
    /\ srvPc = "closed"
    /\ BinaryDone(cliResp,
                  cliBin \o [i \in 1..(DictAt(DictAt(cliResp, K_data), K_size).n
                                        - Len(cliBin)) |-> "x"])
    /\ WrapperEnds
    /\ UNCHANGED <<srvPc, buffer, files, c2s, s2c, stream, log>>

\* receive_binary's `if not chunk: break`: the peer has closed and bytes of
\* the block are missing (FileOperationsServer closes only after send_binary
\* has written the whole block; another peer, or one that dies, may not)
ReceiveBinaryEof ==
    /\ cliPc = "binary"
    /\ s2c = <<>>
    /\ srvPc = "closed"
    /\ BinaryDone(cliResp, cliBin)
    /\ WrapperEnds
    /\ UNCHANGED <<srvPc, buffer, files, c2s, s2c, stream, log>>

\* a recv of send_command or of receive_binary raises (the connection was
\* reset): send_command's except clause returns str(e)
ClientRecvError ==
    /\ cliPc \in {"await", "binary"}
    /\ srvPc = "closed"
    /\ Return(ErrorResult(E_OS), FALSE, <<>>)
    /\ WrapperEnds
    /\ UNCHANGED <<srvPc, buffer, files, c2s, s2c, stream, log>>

\* disconnect(): `if self.socket:` close it (the connection, when there is
\* one, is closed with it) and clear the flag
Disconnect ==
    /\ cliPc = "idle"
    /\ Disconnected
    /\ UNCHANGED <<cliPc, cliReq, cliBuf, cliResp, cliBin, results>>
    /\ UNCHANGED <<srvPc, buffer, files, c2s, s2c, stream, log>>

(***************************************************************************)
(* Bounds and the frames, files and commands the model runs on             *)
(***************************************************************************)
MaxFrames == 2
MaxStreamFrames == 3
MaxShort == 1
MaxCommands == 2
MaxStrLen == 5
MaxBytes == 3
MaxConnections == 2

P_photo ==
    <<"a", ".", "b">>
PhotoBytes ==
    <<"0xFF", "x">>
InitialFiles ==
    << <<P_photo, PhotoBytes>> >>

C_FAKE ==
    <<"F","A","K","E">>

\* a request frame as any peer may write it (params as given)
RequestText(command, params) ==
    json_dumps(JObj(<< <<K_type, JStr(T_request)>>,
                       <<K_command, JStr(command)>>,
                       <<K_params, params>> >>))
    \o MESSAGE_END

PhotoParams ==
    JObj(<< <<K_image_path, JStr(P_photo)>> >>)

F_Delete ==
    create_request(CMD_DELETE, JObj(<< <<K_file_path, JStr(P_photo)>> >>))
F_Photo ==
    create_request(CMD_SEND_PHOTO, PhotoParams)
\* the shortest frames a peer can write for a valid and an unknown command
F_Dir ==
    <<"{">> \o Quote(K_command) \o <<":">> \o Quote(CMD_DIR) \o <<"}">>
    \o MESSAGE_END
F_Unknown ==
    <<"{">> \o Quote(K_command) \o <<":">> \o Quote(<<"X">>) \o <<"}">>
    \o MESSAGE_END
F_Exit ==
    create_request(CMD_EXIT, JNull)
F_Fake ==
    create_request(C_FAKE, JNull)
F_DirNullParams ==
    RequestText(CMD_DIR, JNull)
F_Garbage ==
    <<"{">> \o MESSAGE_END
\* bytes that are not UTF-8
F_Bytes ==
    <<"0xFF">> \o MESSAGE_END
\* JSON without a 'command' field, and JSON that is no mapping
F_NoCommand ==
    json_dumps(JObj(<< <<K_type, JStr(T_request)>>, <<K_params, EmptyDict>> >>))
    \o MESSAGE_END
F_NotObject ==
    <<"[", "]">> \o MESSAGE_END

DispatchFrames ==
    {F_Delete, F_Photo, F_Exit, F_Fake, F_DirNullParams, F_Garbage, F_Bytes,
     F_NoCommand, F_NotObject}
FramingFrames ==
    {F_Dir, F_Unknown}
PartialFrames ==
    {F_Photo, F_Unknown}

RECURSIVE SeqsUpTo(_, _)
SeqsUpTo(S, n) ==
    IF n = 0 THEN {<<>>}
    ELSE LET shorter == SeqsUpTo(S, n - 1)
         IN  shorter \cup {Append(s, x) : s \in shorter, x \in S}

RECURSIVE Flatten(_)
Flatten(ss) ==
    IF ss = <<>> THEN <<>> ELSE Head(ss) \o Flatten(Tail(ss))

(***************************************************************************)
(* Parts of the state a specification leaves out                            *)
(***************************************************************************)
CodecIdle ==
    /\ codecPc = "off"
    /\ codecIn = [kind |-> "none", a |-> <<>>, b |-> <<>>, c |-> JNull]
    /\ codecWire = <<>>
    /\ codecOut = PFail

ClientIdle ==
    /\ connected = FALSE
    /\ sock = "None"
    /\ cliPc = "off"
    /\ cliReq = NoRequest
    /\ cliBuf = <<>>
    /\ cliResp = JNull
    /\ cliBin = <<>>
    /\ results = <<>>

ServerIdle ==
    /\ srvPc = "closed"
    /\ buffer = <<>>
    /\ files = <<>>
    /\ stream = <<>>
    /\ c2s = <<>>
    /\ s2c = <<>>
    /\ peerClosed = FALSE
    /\ log = <<>>

(***************************************************************************)
(* The server and a peer that has written a stream of frames               *)
(***************************************************************************)
ServerInit(streams) ==
    /\ srvPc = "recv"
    /\ buffer = <<>>
    /\ files = InitialFiles
    /\ stream \in streams
    /\ c2s = Flatten(stream)
    /\ s2c = <<>>
    /\ peerClosed = FALSE
    /\ log = <<>>

\* dispatch: every kind of frame, each recv returning whole frames, every
\* send accepted in full
Init ==
    /\ ServerInit(SeqsUpTo(DispatchFrames, MaxFrames))
    /\ ClientIdle
    /\ CodecIdle

Next ==
    \/ HandleClientRecv(WholeFrames(c2s), {0}) /\ UNCHANGED <<cliVars, codecVars>>
    \/ HandleClientEof /\ UNCHANGED <<cliVars, codecVars>>
    \/ PeerClose /\ UNCHANGED <<cliVars, codecVars>>

Spec ==
    Init /\ [][Next]_vars

\* framing: the bytes reach recv in any split
\* neighbouring frames differ, so that a swap or a repeat shows
FramingStreams ==
    {s \in SeqsUpTo(FramingFrames, MaxStreamFrames) :
        \A i \in 1..(Len(s) - 1) : s[i] # s[i + 1]}

FramingInit ==
    /\ ServerInit(FramingStreams)
    /\ ClientIdle
    /\ CodecIdle

FramingNext ==
    \/ HandleClientRecv(AnySplit(c2s), {0}) /\ UNCHANGED <<cliVars, codecVars>>
    \/ HandleClientEof /\ UNCHANGED <<cliVars, codecVars>>
    \/ PeerClose /\ UNCHANGED <<cliVars, codecVars>>

SpecFraming ==
    FramingInit /\ [][FramingNext]_vars

\* sending: a socket.send may fall short by up to MaxShort bytes
PartialInit ==
    /\ ServerInit(SeqsUpTo(PartialFrames, MaxFrames))
    /\ ClientIdle
    /\ CodecIdle

PartialNext ==
    \/ HandleClientRecv(WholeFrames(c2s), 0..MaxShort)
         /\ UNCHANGED <<cliVars, codecVars>>
    \/ HandleClientEof /\ UNCHANGED <<cliVars, codecVars>>
    \/ PeerClose /\ UNCHANGED <<cliVars, codecVars>>

SpecPartial ==
    PartialInit /\ [][PartialNext]_vars

(***************************************************************************)
(* A peer that closes in the middle of a frame: the stream ends with the   *)
(* beginning of a frame, and the bytes reach recv in any split             *)
(***************************************************************************)
PartialTails ==
    {Take(F_Unknown, n) : n \in (1..MaxStrLen) \cup {Len(F_Unknown) - 1}}

EofStreams ==
    {Append(s, p) : s \in SeqsUpTo(FramingFrames, MaxFrames), p \in PartialTails}

EofInit ==
    /\ ServerInit(EofStreams)
    /\ ClientIdle
    /\ CodecIdle

EofNext ==
    \/ HandleClientRecv(AnySplit(c2s), {0}) /\ UNCHANGED <<cliVars, codecVars>>
    \/ HandleClientEof /\ UNCHANGED <<cliVars, codecVars>>
    \/ PeerClose /\ UNCHANGED <<cliVars, codecVars>>

SpecEof ==
    EofInit /\ [][EofNext]_vars

(***************************************************************************)
(* The listening loop: one connection after the other, each peer writing   *)
(* one of ConnectionWrites and closing or resetting at any moment          *)
(***************************************************************************)
ConnectionWrites ==
    {F_Dir, F_Delete, F_Exit \o F_Dir, F_Garbage \o F_Dir, F_Bytes,
     Take(F_Unknown, MaxStrLen)}

(***************************************************************************)
(* FileOperationsServer.start: handle_client has returned and the loop     *)
(* accepts the next connection, whose peer has written one of `writes`.    *)
(* stream gets one entry per accepted connection.                          *)
(***************************************************************************)
\* an accept that hands the old buffer to the new connection
AcceptKeepsBuffer(writes) ==
    /\ srvPc = "closed"
    /\ Len(stream) < MaxConnections
    /\ \E w \in writes :
        /\ stream' = Append(stream, w)
        /\ c2s' = w
    /\ srvPc' = "recv"
    /\ s2c' = <<>>
    /\ peerClosed' = FALSE
    /\ UNCHANGED <<buffer, files, log>>

Accept(writes) ==
    /\ srvPc = "closed"
    /\ Len(stream) < MaxConnections
    /\ \E w \in writes :
        /\ stream' = Append(stream, w)
        /\ c2s' = w
    /\ srvPc' = "recv"
    /\ buffer' = <<>>
    /\ s2c' = <<>>
    /\ peerClosed' = FALSE
    /\ UNCHANGED <<files, log>>

AcceptInit ==
    /\ ServerInit({<<w>> : w \in ConnectionWrites})
    /\ ClientIdle
    /\ CodecIdle

AcceptNext ==
    \/ HandleClientRecv(AnySplit(c2s), {0}) /\ UNCHANGED <<cliVars, codecVars>>
    \/ HandleClientEof /\ UNCHANGED <<cliVars, codecVars>>
    \/ HandleClientRecvError /\ UNCHANGED <<cliVars, codecVars>>
    \/ PeerClose /\ UNCHANGED <<cliVars, codecVars>>
    \/ Accept(ConnectionWrites) /\ UNCHANGED <<cliVars, codecVars>>

SpecAccept ==
    AcceptInit /\ [][AcceptNext]_vars

(***************************************************************************)
(* The seven commands as the client's wrappers send them, each recv        *)
(* returning whole frames                                                  *)
(***************************************************************************)
F_DirCwd ==
    create_request(CMD_DIR, JObj(<< <<K_path, JStr(P_cwd)>> >>))
F_Copy ==
    create_request(CMD_COPY, JObj(<< <<K_source, JStr(P_photo)>>,
                                     <<K_destination, JStr(P_screen)>> >>))
F_Execute ==
    create_request(CMD_EXECUTE, JObj(<< <<K_program_path, JStr(P_photo)>> >>))
F_Screenshot ==
    create_request(CMD_SCREENSHOT, JObj(<< <<K_save_path, JStr(P_screen)>> >>))
F_PhotoScreen ==
    create_request(CMD_SEND_PHOTO, JObj(<< <<K_image_path, JStr(P_screen)>> >>))

CommandFrames ==
    {F_DirCwd, F_Delete, F_Copy, F_Execute, F_Screenshot, F_Photo,
     F_PhotoScreen, F_Exit}

CommandsInit ==
    /\ ServerInit(SeqsUpTo(CommandFrames, MaxFrames))
    /\ ClientIdle
    /\ CodecIdle

CommandsNext ==
    \/ HandleClientRecv(WholeFrames(c2s), {0}) /\ UNCHANGED <<cliVars, codecVars>>
    \/ HandleClientEof /\ UNCHANGED <<cliVars, codecVars>>
    \/ PeerClose /\ UNCHANGED <<cliVars, codecVars>>

SpecCommands ==
    CommandsInit /\ [][CommandsNext]_vars

(***************************************************************************)
(* One client and the server on one connection: the client's recv gets     *)
(* the server's bytes in any split                                         *)
(***************************************************************************)
SessionCommands ==
    {[command |-> CMD_SEND_PHOTO, params |-> PhotoParams],
     [command |-> CMD_DIR, params |-> JObj(<< <<K_path, JStr(P_cwd)>> >>)],
     [command |-> CMD_EXIT, params |-> JNull]}

\* the calls of the command wrappers (lines 115-150) and of the
\* assertions (line 172)
WrapperCommands ==
    SessionCommands \cup
    {[command |-> CMD_DELETE, params |-> JObj(<< <<K_file_path, JStr(P_photo)>> >>)],
     [command |-> CMD_COPY, params |-> JObj(<< <<K_source, JStr(P_photo)>>,
                                               <<K_destination, JStr(P_screen)>> >>)],
     [command |-> CMD_EXECUTE, params |-> JObj(<< <<K_program_path, JStr(P_photo)>> >>)],
     [command |-> CMD_SCREENSHOT, params |-> JObj(<< <<K_save_path, JStr(P_screen)>> >>)],
     [command |-> C_FAKE, params |-> JNull]}

SessionInit ==
    /\ srvPc = "recv"
    /\ buffer = <<>>
    /\ files = InitialFiles
    /\ stream = <<>>
    /\ c2s = <<>>
    /\ s2c = <<>>
    /\ peerClosed = FALSE
    /\ log = <<>>
    /\ connected = FALSE
    /\ sock = "None"
    /\ cliPc = "idle"
    /\ cliReq = NoRequest
    /\ cliBuf = <<>>
    /\ cliResp = JNull
    /\ cliBin = <<>>
    /\ results = <<>>
    /\ CodecIdle

SessionNext ==
    \/ Connect /\ UNCHANGED codecVars
    \/ ConnectFail /\ UNCHANGED codecVars
    \/ \E r \in IF connected THEN SessionCommands ELSE WrapperCommands :
         /\ Len(results) < MaxCommands
         /\ SendCommand(r.command, r.params)
         /\ UNCHANGED codecVars
    \/ ClientRecv(AnySplit(s2c)) /\ UNCHANGED codecVars
    \/ ClientRecvEof /\ UNCHANGED codecVars
    \/ ReceiveBinary(AnySplit(s2c)) /\ UNCHANGED codecVars
    \/ Disconnect /\ UNCHANGED codecVars
    \/ HandleClientRecv(WholeFrames(c2s), {0}) /\ UNCHANGED <<cliVars, codecVars>>
    \/ HandleClientEof /\ UNCHANGED <<cliVars, codecVars>>

SpecSession ==
    SessionInit /\ [][SessionNext]_vars

(***************************************************************************)
(* A connected client and the server in its loop, over a stream whose      *)
(* reads return any part of what has arrived and whose writes accept all   *)
(* but up to MaxShort of the bytes offered; nobody closes before EXIT      *)
(***************************************************************************)
\* a photo that begins with a byte JSON takes for white space
BlankPhoto ==
    << <<P_photo, <<" ", "x">> >> >>

ExchangeInit ==
    /\ srvPc = "recv"
    /\ buffer = <<>>
    /\ files \in {InitialFiles, BlankPhoto}
    /\ stream = <<>>
    /\ c2s = <<>>
    /\ s2c = <<>>
    /\ peerClosed = FALSE
    /\ log = <<>>
    /\ connected = TRUE
    /\ sock = "socket"
    /\ cliPc = "idle"
    /\ cliReq = NoRequest
    /\ cliBuf = <<>>
    /\ cliResp = JNull
    /\ cliBin = <<>>
    /\ results = <<>>
    /\ CodecIdle

ExchangeNext ==
    \/ \E r \in SessionCommands :
         /\ Len(results) < MaxCommands
         /\ SendCommand(r.command, r.params)
         /\ UNCHANGED codecVars
    \/ ClientRecv(AnySplit(s2c)) /\ UNCHANGED codecVars
    \/ ClientRecvEof /\ UNCHANGED codecVars
    \/ ReceiveBinary(AnySplit(s2c)) /\ UNCHANGED codecVars
    \/ HandleClientRecv(AnySplit(c2s), 0..MaxShort)
         /\ UNCHANGED <<cliVars, codecVars>>

SpecExchange ==
    ExchangeInit /\ [][ExchangeNext]_vars

(***************************************************************************)
(* The client's methods in any order: connect, send_command, exit_command  *)
(* and disconnect, against the server, a recv of the client failing at     *)
(* any moment after the server has closed                                  *)
(***************************************************************************)
\* the sizes recv may return when it returns all that has arrived or the
\* first half of it
HalfOrAll(wire) ==
    {Len(wire), (Len(wire) + 1) \div 2}

\* the commands without a binary block
ClientCommands ==
    {r \in SessionCommands : r.command # CMD_SEND_PHOTO}

ClientNext ==
    \/ Connect /\ UNCHANGED codecVars
    \/ ConnectFail /\ UNCHANGED codecVars
    \/ \E r \in IF connected THEN ClientCommands ELSE WrapperCommands :
         /\ Len(results) < MaxCommands
         /\ SendCommand(r.command, r.params)
         /\ UNCHANGED codecVars
    \/ /\ Len(results) < MaxCommands
       /\ exit_command
       /\ UNCHANGED codecVars
    \/ ClientRecv(HalfOrAll(s2c)) /\ UNCHANGED codecVars
    \/ ClientRecvEof /\ UNCHANGED codecVars
    \/ ClientRecvError /\ UNCHANGED codecVars
    \/ Disconnect /\ UNCHANGED codecVars
    \/ HandleClientRecv(WholeFrames(c2s), {0}) /\ UNCHANGED <<cliVars, codecVars>>
    \/ HandleClientEof /\ UNCHANGED <<cliVars, codecVars>>

SpecClient ==
    SessionInit /\ [][ClientNext]_vars

(***************************************************************************)
(* The client against any peer: the request is written, and the peer      *)
(* writes a reply of its choice and closes; the client's recv gets the     *)
(* reply in any split                                                      *)
(***************************************************************************)
PeerBytes ==
    {"x", "0xFF"}

RECURSIVE BytesUpTo(_, _)
BytesUpTo(bytes, n) ==
    IF n = 0 THEN {<<>>}
    ELSE LET shorter == BytesUpTo(bytes, n - 1)
         IN  shorter \cup {Append(s, c) : s \in shorter, c \in bytes}

\* a response frame announcing n bytes
SizedResponse(n) ==
    create_response(STATUS_SUCCESS, <<>>, JObj(<< <<K_size, JInt(n)>> >>))

\* a frame announcing a block followed by fewer, as many or more raw bytes;
\* a response without fields, JSON that is no mapping, text that is no
\* JSON, a byte that is not UTF-8, a frame cut short, nothing at all, and
\* an error response
PeerReplies(maxBytes) ==
    {SizedResponse(n) \o b :
        n \in 1..maxBytes, b \in BytesUpTo(PeerBytes, maxBytes)}
    \cup {<<"{", "}">> \o MESSAGE_END,
          <<"[", "]">> \o MESSAGE_END,
          F_Garbage,
          <<"0xFF">>,
          Take(SizedResponse(1), MaxStrLen),
          <<>>,
          create_response(STATUS_ERROR, M_InvalidCommand, JNull)}

PeerInit ==
    /\ connected = TRUE
    /\ sock = "socket"
    /\ cliPc = "await"
    /\ cliReq = [command |-> CMD_SEND_PHOTO, params |-> PhotoParams,
                 wrapper |-> "send_command"]
    /\ cliBuf = <<>>
    /\ cliResp = JNull
    /\ cliBin = <<>>
    /\ results = <<>>
    /\ srvPc = "closed"
    /\ buffer = <<>>
    /\ files = <<>>
    /\ stream = <<F_Photo>>
    /\ c2s = F_Photo
    /\ s2c \in PeerReplies(MaxBytes)
    /\ peerClosed = FALSE
    /\ log = <<>>
    /\ CodecIdle

PeerNext ==
    \/ ClientRecv(AnySplit(s2c)) /\ UNCHANGED codecVars
    \/ ClientRecvEof /\ UNCHANGED codecVars
    \/ ClientRecvError /\ UNCHANGED codecVars
    \/ ReceiveBinary(AnySplit(s2c)) /\ UNCHANGED codecVars
    \/ ReceiveBinaryEof /\ UNCHANGED codecVars

SpecPeer ==
    PeerInit /\ [][PeerNext]_vars

(***************************************************************************)
(* The codec on its own: encode a message, decode the text                 *)
(***************************************************************************)
CodecChars ==
    {"<", "E", "N", "D", ">", "\""}

RECURSIVE TextsUpTo(_, _)
TextsUpTo(chars, n) ==
    IF n = 0 THEN {<<>>}
    ELSE LET shorter == TextsUpTo(chars, n - 1)
         IN  shorter \cup {Append(s, c) : s \in shorter, c \in chars}

\* the messages to encode: a = command or status, b = message, c = params
\* or data (JNull when absent); the strings have up to maxLen characters
CodecInputs(maxLen) ==
    {[kind |-> "request", a |-> command, b |-> <<>>, c |-> JNull] :
        command \in ValidCommands}
    \cup {[kind |-> "request", a |-> CMD_DIR, b |-> <<>>,
           c |-> JObj(<< <<K_path, JStr(s)>> >>)] :
            s \in TextsUpTo(CodecChars, maxLen)}
    \cup {[kind |-> "response", a |-> status, b |-> <<>>, c |-> JNull] :
            status \in {STATUS_SUCCESS, STATUS_ERROR}}
    \cup {[kind |-> "response", a |-> STATUS_SUCCESS, b |-> s,
           c |-> JObj(<< <<K_path, JStr(s)>> >>)] :
            s \in TextsUpTo(CodecChars, maxLen)}

CodecInit ==
    /\ codecPc = "start"
    /\ codecIn \in CodecInputs(MaxStrLen)
    /\ codecWire = <<>>
    /\ codecOut = PFail
    /\ ServerIdle
    /\ ClientIdle

EncodeRequest ==
    /\ codecPc = "start"
    /\ codecIn.kind = "request"
    /\ codecWire' = create_request(codecIn.a, codecIn.c)
    /\ codecPc' = "encoded"
    /\ UNCHANGED <<codecIn, codecOut>>

EncodeResponse ==
    /\ codecPc = "start"
    /\ codecIn.kind = "response"
    /\ codecWire' = create_response(codecIn.a, codecIn.b, codecIn.c)
    /\ codecPc' = "encoded"
    /\ UNCHANGED <<codecIn, codecOut>>

Decode ==
    /\ codecPc = "encoded"
    /\ codecOut' = parse_message(codecWire)
    /\ codecPc' = "decoded"
    /\ UNCHANGED <<codecIn, codecWire>>

CodecNext ==
    \/ EncodeRequest /\ UNCHANGED <<srvVars, cliVars>>
    \/ EncodeResponse /\ UNCHANGED <<srvVars, cliVars>>
    \/ Decode /\ UNCHANGED <<srvVars, cliVars>>

SpecCodec ==
    CodecInit /\ [][CodecNext]_vars

(***************************************************************************)
(* validate_command on its own, applied to a string                        *)
(***************************************************************************)
ValidateChars ==
    {"D", "I", "R", "d"}

\* the seven identifiers, their lower-case and capitalised spellings, their
\* proper prefixes (the empty string among them), the identifiers with a
\* character before or after, and every text of up to maxLen ValidateChars
ValidateInputs(maxLen) ==
    ValidCommands
    \cup {Lower(c) : c \in ValidCommands}
    \cup {<<c[1]>> \o Lower(Drop(c, 1)) : c \in ValidCommands}
    \cup UNION {{Take(c, n) : n \in 0..(Len(c) - 1)} : c \in ValidCommands}
    \cup {c \o <<x>> : c \in ValidCommands, x \in {" ", "\n", "S"}}
    \cup {<<" ">> \o c : c \in ValidCommands}
    \cup TextsUpTo(ValidateChars, maxLen)

ValidateInit ==
    /\ codecPc = "start"
    /\ \E text \in ValidateInputs(MaxStrLen) :
        codecIn = [kind |-> "validate", a |-> text, b |-> <<>>, c |-> JNull]
    /\ codecWire = <<>>
    /\ codecOut = PFail
    /\ ServerIdle
    /\ ClientIdle

\* Protocol.validate_command(codecIn.a); the result goes to codecOut
ValidateCommand ==
    /\ codecPc = "start"
    /\ codecIn.kind = "validate"
    /\ codecOut' = JBool(validate_command(JStr(codecIn.a)))
    /\ codecPc' = "validated"
    /\ UNCHANGED <<codecIn, codecWire>>

ValidateNext ==
    ValidateCommand /\ UNCHANGED <<srvVars, cliVars>>

SpecValidate ==
    ValidateInit /\ [][ValidateNext]_vars

(***************************************************************************)
(* execute_command on its own, applied to a command string and a params    *)
(* mapping, in the directory InitialFiles                                  *)
(***************************************************************************)
\* the seven identifiers, their lower-case spellings, their first and last
\* characters dropped, the empty string and FAKE
ExecuteCommands ==
    ValidCommands
    \cup {Lower(c) : c \in ValidCommands}
    \cup {Drop(c, 1) : c \in ValidCommands}
    \cup {Take(c, Len(c) - 1) : c \in ValidCommands}
    \cup {<<>>, C_FAKE}

\* values of a parameter: paths that exist and that do not, the empty
\* string, and values that are no strings
ExecuteValues ==
    {JStr(P_photo), JStr(P_cwd), JStr(P_screen), JStr(<<>>), JNull, JInt(1)}

\* params mappings: the empty one, each handler's parameter alone with each
\* value, and all parameters together
ExecuteParams ==
    {EmptyDict}
    \cup {JObj(<< <<key, v>> >>) :
            key \in {K_path, K_file_path, K_program_path, K_save_path,
                     K_image_path, K_source},
            v \in ExecuteValues}
    \cup {JObj(<< <<K_source, JStr(P_photo)>>, <<K_destination, v>> >>) :
            v \in ExecuteValues}
    \cup {JObj(<< <<K_path, v>>, <<K_file_path, v>>, <<K_source, v>>,
                  <<K_destination, JStr(P_screen)>>, <<K_program_path, v>>,
                  <<K_save_path, v>>, <<K_image_path, v>> >>) :
            v \in ExecuteValues}

ExecuteInit ==
    /\ codecPc = "start"
    /\ \E command \in ExecuteCommands, params \in ExecuteParams :
        codecIn = [kind |-> "execute", a |-> command, b |-> <<>>, c |-> params]
    /\ codecWire = <<>>
    /\ codecOut = PFail
    /\ srvPc = "closed"
    /\ buffer = <<>>
    /\ files = InitialFiles
    /\ c2s = <<>>
    /\ s2c = <<>>
    /\ peerClosed = FALSE
    /\ stream = <<>>
    /\ log = <<>>
    /\ ClientIdle

\* self.execute_command(codecIn.a, codecIn.c): what it returned goes to
\* codecOut and the directory it leaves to files
ExecuteCommand ==
    /\ codecPc = "start"
    /\ codecIn.kind = "execute"
    /\ codecOut' = execute_command(files, codecIn.a, codecIn.c)
    /\ files' = execute_command(files, codecIn.a, codecIn.c).res.fs
    /\ codecPc' = "executed"
    /\ UNCHANGED <<codecIn, codecWire>>
    /\ UNCHANGED <<srvPc, buffer, c2s, s2c, peerClosed, stream, log>>

ExecuteNext ==
    ExecuteCommand /\ UNCHANGED cliVars

SpecExecute ==
    ExecuteInit /\ [][ExecuteNext]_vars

(***************************************************************************)
(* parse_message on any text: short texts over the characters JSON is made *)
(* of, and messages with and without their fields                          *)
(***************************************************************************)
ParseChars ==
    {"{", "}", "\"", ":", "1"}

MessageTexts ==
    {create_request(CMD_DIR, JNull),
     create_response(STATUS_SUCCESS, M_Goodbye, JNull),
     json_dumps(JObj(<< <<K_command, JStr(CMD_DIR)>>, <<K_params, EmptyDict>> >>))
        \o MESSAGE_END,
     json_dumps(JObj(<< <<K_type, JStr(T_request)>>, <<K_params, EmptyDict>> >>))
        \o MESSAGE_END,
     json_dumps(JObj(<< <<K_type, JStr(T_response)>>,
                        <<K_status, JStr(STATUS_SUCCESS)>> >>))
        \o MESSAGE_END,
     json_dumps(JObj(<< <<K_type, JStr(T_response)>>,
                        <<K_message, JStr(M_Goodbye)>> >>))
        \o MESSAGE_END}

ParseInputs(maxLen) ==
    {t \o MESSAGE_END : t \in TextsUpTo(ParseChars, maxLen)} \cup MessageTexts

ParseInit ==
    /\ codecPc = "encoded"
    /\ codecIn = [kind |-> "none", a |-> <<>>, b |-> <<>>, c |-> JNull]
    /\ codecWire \in ParseInputs(MaxStrLen)
    /\ codecOut = PFail
    /\ ServerIdle
    /\ ClientIdle

ParseNext ==
    Decode /\ UNCHANGED <<srvVars, cliVars>>

SpecParse ==
    ParseInit /\ [][ParseNext]_vars

(***************************************************************************)
(* Properties                                                              *)
(***************************************************************************)
\* the command of the request an extracted frame decodes to (JNull when the
\* frame is no request)
CommandOf(frame) ==
    LET r == parse_message(frame \o MESSAGE_END)
    IN  IF r.ok /\ r.v.k = "obj" THEN DictGet(r.v, K_command, JNull) ELSE JNull

UnknownCommand(frame) ==
    CommandOf(frame).k = "str" /\ CommandOf(frame).s \notin ValidCommands

ExitCommand(frame) ==
    CommandOf(frame) = JStr(CMD_EXIT)

ValidNonExit(frame) ==
    CommandOf(frame).k = "str" /\ CommandOf(frame).s \in ValidCommands \ {CMD_EXIT}

\* the frames extracted so far, each with its terminator
Extracted ==
    [k \in 1..Len(log) |-> log[k].frame \o MESSAGE_END]

\* everything the server has received from the socket so far
Received ==
    Take(Flatten(stream), Len(Flatten(stream)) - Len(c2s))

\* C1 (SpecSession): when the server has answered the client's SEND_PHOTO
\* for a readable file, writing the response and the block in full, the
\* result send_command returns has status success, data.size equal to the
\* file's length and a binary payload equal to the file's contents, however
\* the bytes were split over the client's recv calls.
C1_PhotoExchange ==
    ( /\ Len(results) >= 1
      /\ results[1].wrote
      /\ results[1].command = CMD_SEND_PHOTO
      /\ Len(log) >= 1
      /\ log[1].frame \o MESSAGE_END = F_Photo
      /\ log[1].sent = log[1].resp \o FileContent(InitialFiles, P_photo) )
    => /\ DictGet(results[1].result, K_status, JNull) = JStr(STATUS_SUCCESS)
       /\ DictGet(DictGet(results[1].result, K_data, EmptyDict), K_size, JNull)
            = JInt(Len(FileContent(InitialFiles, P_photo)))
       /\ results[1].hasBinary
       /\ results[1].binary = FileContent(InitialFiles, P_photo)

C3_Exit ==
    \A k \in 1..Len(log) :
        ExitCommand(log[k].frame) =>
            /\ log[k].resp = create_response(STATUS_SUCCESS, M_Goodbye, JNull)
            /\ log[k].sent = IF log[k].ioerr THEN <<>> ELSE log[k].resp
            /\ ~log[k].open
            /\ k = Len(log)
            /\ srvPc = "closed"

C3_Witness ==
    /\ log # <<>>
    /\ ExitCommand(log[Len(log)].frame)
    /\ log[Len(log)].sent = create_response(STATUS_SUCCESS, M_Goodbye, JNull)
    /\ buffer # <<>>
    /\ srvPc = "closed"

\* C4 (Spec): every frame that decodes to a request with a valid command
\* other than EXIT is answered by a response with status success or error
\* and leaves the server in its loop, whatever its params and whatever the
\* handler does, unless a send fails.
C4_FailedCommandKeepsConnection ==
    \A k \in 1..Len(log) :
        (ValidNonExit(log[k].frame) /\ ~log[k].ioerr) =>
            /\ log[k].open
            /\ log[k].sent # <<>>

\* C5 (SpecFraming): once every byte of a stream of complete frames has
\* been delivered, in whatever split, the server has extracted all its
\* frames, without the peer writing anything more.
C5_ChunkingIndependent ==
    (srvPc = "recv" /\ c2s = <<>>) => Extracted = stream

\* C6 (SpecFraming): a recv after which the buffer holds two complete
\* frames and the beginning of a third makes the server extract and
\* dispatch exactly two frames and keep exactly the partial third.
C6_LeftoverPreserved ==
    [][ ( /\ srvPc = "recv"
          /\ c2s' # c2s
          /\ Cardinality(Occurrences(
                buffer \o Take(c2s, Len(c2s) - Len(c2s')), MESSAGE_END)) = 2
          /\ ~EndsWith(buffer \o Take(c2s, Len(c2s) - Len(c2s')), MESSAGE_END) )
        => /\ Len(log') = Len(log) + 2
           /\ ~Contains(buffer', MESSAGE_END)
           /\ Flatten(Extracted') \o buffer'
                = Flatten(Extracted) \o buffer \o Take(c2s, Len(c2s) - Len(c2s'))
      ]_vars

\* C7 (SpecFraming): while the server is in its loop, the frames extracted
\* so far, each with its terminator, followed by the buffer are exactly the
\* bytes received so far, in order.
C7_NoByteLost ==
    srvPc = "recv" => Flatten(Extracted) \o buffer = Received

C7_Witness ==
    /\ srvPc = "recv"
    /\ Len(log) >= 1
    /\ buffer # <<>>
    /\ c2s # <<>>

\* the bytes the server writes for the k-th frame of the stream
Answer(k) ==
    ProcessFrame(InitialFiles, Take(stream[k], Len(stream[k]) - Len(MESSAGE_END))).resp

\* C8 (SpecFraming): the frames are dispatched in the order their
\* terminators arrived, none twice and none skipped, and the responses are
\* written in that order: the k-th response on the wire answers the k-th
\* frame.
C8_RequestOrder ==
    /\ Len(log) <= Len(stream)
    /\ \A k \in 1..Len(log) : log[k].frame \o MESSAGE_END = stream[k]
    /\ s2c = Flatten([k \in 1..Len(log) |->
                        IF log[k].ioerr THEN <<>> ELSE Answer(k)])

C8_Witness ==
    /\ Len(log) >= 3
    /\ log[1].sent # log[2].sent
    /\ s2c = log[1].sent \o log[2].sent \o log[3].sent

\* C9 (SpecPartial): when the server is back at recv, every byte of the
\* response of each frame dispatched, and of its binary block, has been
\* handed to the socket, also when a send accepts only part of the bytes.
C9_ResponseInFull ==
    srvPc = "recv" =>
        \A k \in 1..Len(log) : log[k].sent = log[k].resp \o log[k].bin

\* C10 (SpecCodec): parse_message gives back the command and params of
\* create_request and the status, message and data of create_response, an
\* absent params or data coming back as the empty mapping.
C10_RoundTrip ==
    codecPc = "decoded" =>
        /\ codecOut.ok
        /\ codecOut.v.k = "obj"
        /\ IF codecIn.kind = "request"
           THEN /\ DictGet(codecOut.v, K_command, JNull) = JStr(codecIn.a)
                /\ DictGet(codecOut.v, K_params, JNull)
                     = IF codecIn.c = JNull THEN EmptyDict ELSE codecIn.c
           ELSE /\ DictGet(codecOut.v, K_status, JNull) = JStr(codecIn.a)
                /\ DictGet(codecOut.v, K_message, JNull) = JStr(codecIn.b)
                /\ DictGet(codecOut.v, K_data, JNull)
                     = IF codecIn.c = JNull THEN EmptyDict ELSE codecIn.c

\* C11 (SpecCodec): every text create_request or create_response produces
\* holds the terminator exactly once, as its last five characters.
C11_TerminatorOnlyAtEnd ==
    codecPc \in {"encoded", "decoded"} =>
        Occurrences(codecWire, MESSAGE_END)
            = {Len(codecWire) - Len(MESSAGE_END) + 1}

AnnouncedSize(response) ==
    IF response.k = "obj" /\ DictGet(response, K_data, EmptyDict).k = "obj"
    THEN DictGet(DictGet(response, K_data, EmptyDict), K_size, JNull)
    ELSE JNull

\* C12 (SpecPeer): receive_binary, called with size N when at least N bytes
\* are still to come, returns exactly the first N of them, whatever the
\* chunks, and leaves every later byte unread.
C12_ReceiveExactly ==
    [][ (cliPc = "binary" /\ cliPc' = "idle"
         /\ results'[Len(results')].hasBinary
         /\ Len(cliBin \o s2c) >= AnnouncedSize(cliResp).n)
        => /\ results'[Len(results')].binary
                = Take(cliBin \o s2c, AnnouncedSize(cliResp).n)
           /\ s2c' = Drop(cliBin \o s2c, AnnouncedSize(cliResp).n)
      ]_vars

\* C13 (SpecPeer): send_command returns no success result whose binary
\* payload is shorter than the size the response announced.
C13_ShortTransferIsFailure ==
    \A k \in 1..Len(results) :
        ( /\ results[k].hasBinary
          /\ DictGet(results[k].result, K_status, JNull) = JStr(STATUS_SUCCESS) )
        => Len(results[k].binary) >= AnnouncedSize(results[k].result).n

RespSize(e) ==
    IF e.kind = "raised" THEN JNull ELSE AnnouncedSize(parse_message(e.resp).v)

\* C14 (SpecCommands): what the server writes for a frame is its response
\* followed by the handler's binary payload and nothing else; the response
\* announces data.size exactly when raw bytes follow, and then as many bytes
\* as it announces; the responses to DIR, DELETE, COPY, EXECUTE and EXIT
\* announce no size and no raw bytes follow them.
C14_AnnouncedSize ==
    \A k \in 1..Len(log) :
        ~log[k].ioerr =>
            /\ log[k].sent
                 = (IF log[k].kind = "raised" THEN log[k].errResp ELSE log[k].resp)
                   \o log[k].bin
            /\ RespSize(log[k]) = JNull => log[k].bin = <<>>
            /\ RespSize(log[k]) # JNull => RespSize(log[k]) = JInt(Len(log[k].bin))
            /\ CommandOf(log[k].frame)
                 \in {JStr(CMD_DIR), JStr(CMD_DELETE), JStr(CMD_COPY),
                      JStr(CMD_EXECUTE), JStr(CMD_EXIT)}
               => RespSize(log[k]) = JNull /\ log[k].bin = <<>>

\* a screenshot is taken and sent as a photo, block included
C14_Witness ==
    /\ Len(log) = 2
    /\ log[1].frame \o MESSAGE_END = F_Screenshot
    /\ log[2].frame \o MESSAGE_END = F_PhotoScreen
    /\ log[2].bin = ScreenBytes
    /\ RespSize(log[2]) = JInt(Len(ScreenBytes))
    /\ s2c = log[1].resp \o log[2].resp \o ScreenBytes

\* a decoded message that has its required fields: the kind, and the
\* command of a request or the status and the message of a response
HasRequiredFields(v) ==
    /\ v.k = "obj"
    /\ \/ /\ DictGet(v, K_type, JNull) = JStr(T_request)
          /\ HasKey(v, K_command)
       \/ /\ DictGet(v, K_type, JNull) = JStr(T_response)
          /\ HasKey(v, K_status)
          /\ HasKey(v, K_message)

\* C16 (SpecParse): parse_message returns a value only for a text that is
\* JSON and has the required fields; for every other text it raises.
C16_DecodeRejectsIncomplete ==
    (codecPc = "decoded" /\ codecOut.ok) => HasRequiredFields(codecOut.v)

\* a frame whose body is no JSON, or JSON without a 'command' field
Undecodable(frame) ==
    \/ ~parse_message(frame \o MESSAGE_END).ok
    \/ parse_message(frame \o MESSAGE_END).v.k # "obj"
    \/ ~HasKey(parse_message(frame \o MESSAGE_END).v, K_command)

\* C17 (Spec): a frame that is no JSON or has no 'command' field reaches no
\* handler; the server tries to send one error response for it, leaves the
\* loop and closes the socket: it is the last frame of the connection.
C17_UndecodableFrameIsFatal ==
    \A k \in 1..Len(log) :
        Undecodable(log[k].frame) =>
            /\ ~log[k].called
            /\ log[k].kind = "raised"
            /\ log[k].resp = <<>>
            /\ log[k].bin = <<>>
            /\ log[k].errResp
                 \in {ErrorResponse(E_Json), ErrorResponse(E_Type),
                      ErrorResponse(E_KeyCommand)}
            /\ log[k].sent = IF log[k].ioerr THEN <<>> ELSE log[k].errResp
            /\ ~log[k].open
            /\ k = Len(log)
            /\ srvPc = "closed"

\* the frame without 'command' was answered and a frame behind it stays
\* in the buffer of the closed connection
C17_Witness ==
    /\ log # <<>>
    /\ log[Len(log)].frame \o MESSAGE_END = F_NoCommand
    /\ log[Len(log)].sent = ErrorResponse(E_KeyCommand)
    /\ buffer # <<>>
    /\ srvPc = "closed"

\* C18 (SpecEof): when recv returns no data while the buffer holds the
\* beginning of a frame, the server leaves the loop and closes the socket;
\* nothing is dispatched and nothing is sent for the partial frame.
C18_PeerCloseMidFrame ==
    [][ ( /\ srvPc = "recv"
          /\ peerClosed
          /\ c2s = <<>>
          /\ buffer # <<>>
          /\ ~Contains(buffer, MESSAGE_END)
          /\ srvVars' # srvVars )
        => /\ srvPc' = "closed"
           /\ log' = log
           /\ s2c' = s2c
           /\ files' = files
      ]_vars

\* the connection was closed by the read of no data, a partial frame in
\* the buffer, the frames before it answered
C18_Witness ==
    /\ srvPc = "closed"
    /\ peerClosed
    /\ c2s = <<>>
    /\ buffer # <<>>
    /\ ~Contains(buffer, MESSAGE_END)
    /\ Len(log) = MaxFrames
    /\ log[Len(log)].open
    /\ s2c = Flatten([k \in 1..Len(log) |-> log[k].resp])

\* C20 (SpecAccept): however handle_client leaves its loop, the client
\* socket is closed and the listening loop is back at accept; the next
\* connection can be accepted and its buffer starts empty, so that its
\* first frame is served as on a fresh server.
C20_ServerSurvives ==
    [][ /\ (srvPc = "recv" /\ srvPc' # "recv") => srvPc' = "closed"
        /\ (srvPc = "closed" /\ Len(stream) < MaxConnections)
              => ENABLED Accept(ConnectionWrites)
        /\ (srvPc = "closed" /\ srvPc' # "closed")
              => /\ srvPc' = "recv"
                 /\ buffer' = <<>>
                 /\ c2s' = stream'[Len(stream')]
        /\ (srvPc' = "recv" /\ Len(log') > Len(log))
              => log'[Len(log')].frame \o MESSAGE_END
                   = Take(stream[Len(stream)], Len(log'[Len(log')].frame) + Len(MESSAGE_END))
      ]_vars

\* the first connection was closed on an undecodable frame with a further
\* frame left in its buffer, and the second connection's DIR was answered
C20_Witness ==
    /\ Len(stream) = 2
    /\ stream[1] = F_Garbage \o F_Dir
    /\ stream[2] = F_Dir
    /\ Len(log) = 2
    /\ log[1].kind = "raised"
    /\ log[2].kind = "handled"
    /\ log[2].frame \o MESSAGE_END = F_Dir
    /\ s2c = log[2].resp
    /\ srvPc = "recv"
    /\ buffer = <<>>

\* C21 (SpecValidate): validate_command returns true for DIR, DELETE, COPY,
\* EXECUTE, TAKE_SCREENSHOT, SEND_PHOTO and EXIT, and false for every other
\* string, the empty string and other spellings of the seven included.
C21_ValidateCommand ==
    codecPc = "validated" =>
        codecOut = JBool(codecIn.a \in
            {<<"D","I","R">>,
             <<"D","E","L","E","T","E">>,
             <<"C","O","P","Y">>,
             <<"E","X","E","C","U","T","E">>,
             <<"T","A","K","E","_","S","C","R","E","E","N","S","H","O","T">>,
             <<"S","E","N","D","_","P","H","O","T","O">>,
             <<"E","X","I","T">>})

\* the lower-case spelling of TAKE_SCREENSHOT was refused
C21_Witness ==
    /\ codecPc = "validated"
    /\ codecIn.a = <<"t","a","k","e","_","s","c","r","e","e","n","s","h","o","t">>
    /\ codecOut = JBool(FALSE)

\* C22 (SpecClient): disconnect is idempotent: a second disconnect changes
\* nothing, the flag is False after it, a disconnect on a client that never
\* connected changes nothing, and no case of it raises.
C22_DisconnectIdempotent ==
    cliPc = "idle" =>
        /\ disconnect(disconnect([connected |-> connected, sock |-> sock]))
             = disconnect([connected |-> connected, sock |-> sock])
        /\ ~disconnect([connected |-> connected, sock |-> sock]).connected
        /\ sock \in {"None", "closed"}
             => disconnect([connected |-> connected, sock |-> sock])
                  = [connected |-> connected, sock |-> sock]

\* a client that had a command answered was disconnected
C22_Witness ==
    /\ cliPc = "idle"
    /\ sock = "closed"
    /\ ~connected
    /\ peerClosed
    /\ Len(results) >= 1
    /\ results[1].wrote
    /\ results[1].wrapper = "send_command"

\* C26 (SpecClient): connected = True implies that the socket field is set,
\* and when exit_command returns connected is False, whether the EXIT
\* request succeeded, failed or was never sent.
C26_ConnectionState ==
    /\ [](connected => sock # "None")
    /\ [][ ( /\ Len(results') > Len(results)
             /\ results'[Len(results')].wrapper = "exit_command" )
           => ~connected' ]_vars

\* exit_command returned an error for an EXIT it had written, and the
\* client is disconnected
C26_Witness ==
    /\ Len(results) >= 1
    /\ results[Len(results)].wrapper = "exit_command"
    /\ results[Len(results)].wrote
    /\ DictGet(results[Len(results)].result, K_status, JNull) = JStr(STATUS_ERROR)
    /\ ~connected
    /\ sock = "closed"
    /\ cliPc = "idle"

\* C27 (SpecPeer): when the peer has closed and fewer bytes than the size
\* asked for are to come, receive_binary goes on reading (no byte is lost,
\* added or moved while it reads), is never stuck, and returns exactly the
\* bytes that came, in their order.
C27_EarlyClose ==
    [][ ( /\ cliPc = "binary"
          /\ srvPc = "closed"
          /\ Len(cliBin \o s2c) < AnnouncedSize(cliResp).n )
        => /\ ENABLED (ReceiveBinary(AnySplit(s2c)) \/ ReceiveBinaryEof)
           /\ cliPc' = "binary" => cliBin' \o s2c' = cliBin \o s2c
           /\ (cliPc' = "idle" /\ results'[Len(results')].hasBinary)
                => /\ s2c = <<>>
                   /\ results'[Len(results')].binary = cliBin
      ]_vars

\* three bytes were announced, two came before the close, and the two were
\* returned
C27_Witness ==
    /\ cliPc = "idle"
    /\ Len(results) = 1
    /\ results[1].hasBinary
    /\ AnnouncedSize(results[1].result) = JInt(3)
    /\ results[1].binary = <<"x", "0xFF">>
    /\ s2c = <<>>

\* the handler the command identifier names ("none" for EXIT and for a
\* string that is none of the seven)
NamedHandler(command) ==
    CASE command = <<"D","I","R">> -> "cmd_dir"
      [] command = <<"D","E","L","E","T","E">> -> "cmd_delete"
      [] command = <<"C","O","P","Y">> -> "cmd_copy"
      [] command = <<"E","X","E","C","U","T","E">> -> "cmd_execute"
      [] command = <<"T","A","K","E","_","S","C","R","E","E","N","S","H","O","T">>
            -> "cmd_screenshot"
      [] command = <<"S","E","N","D","_","P","H","O","T","O">> -> "cmd_send_photo"
      [] OTHER -> "none"

\* C25 (SpecExecute): for every command string and every params mapping,
\* execute_command raises nothing, calls the handler the identifier names
\* and no other, and returns a status and a message; for a string that is
\* none of the seven identifiers it calls no handler and returns error
\* "Unknown command"; for EXIT it calls no handler and returns success
\* "Goodbye"; where no handler is called the directory is left as it was.
C25_DispatchTotal ==
    codecPc = "executed" =>
        /\ ~codecOut.raised
        /\ codecOut.handler = NamedHandler(codecIn.a)
        /\ codecOut.res.status \in {STATUS_SUCCESS, STATUS_ERROR}
        /\ {"status", "message"} \subseteq DOMAIN codecOut.res
        /\ codecOut.handler = "none" =>
              /\ files = InitialFiles
              /\ ~codecOut.res.hasBinary
              /\ codecOut.res.data = JNull
              /\ IF codecIn.a = <<"E","X","I","T">>
                 THEN /\ codecOut.res.status = STATUS_SUCCESS
                      /\ codecOut.res.message = <<"G","o","o","d","b","y","e">>
                 ELSE /\ codecOut.res.status = STATUS_ERROR
                      /\ codecOut.res.message
                           = <<"U","n","k","n","o","w","n"," ",
                               "c","o","m","m","a","n","d">>
        /\ codecOut.handler \in {"cmd_dir", "cmd_execute", "cmd_send_photo"}
              => files = InitialFiles

\* DELETE with the parameters of every handler in its params removed the
\* file; only cmd_delete was called
C25_Witness ==
    /\ codecPc = "executed"
    /\ codecIn.a = CMD_DELETE
    /\ HasKey(codecIn.c, K_path)
    /\ HasKey(codecIn.c, K_image_path)
    /\ codecOut.handler = "cmd_delete"
    /\ codecOut.res.status = STATUS_SUCCESS
    /\ files = <<>>

\* the calls of send_command that wrote their request, in order
Wrote(r) ==
    r.wrote
WrittenCalls ==
    SelectSeq(results, Wrote)

\* C23 (SpecSession): whenever send_command has returned, the result of the
\* k-th call that wrote a request is the decoding of the response the server
\* wrote for the k-th request, with the block the server wrote after it, if
\* any; and once every request written is answered and every call has
\* returned, no byte of the server is left unread.
C23_Pairing ==
    cliPc = "idle" =>
        /\ \A k \in 1..Min(Len(WrittenCalls), Len(log)) :
              log[k].open \/ IsExit(WrittenCalls[k].command) =>
                /\ WrittenCalls[k].result = parse_message(log[k].resp).v
                /\ WrittenCalls[k].hasBinary = (log[k].bin # <<>>)
                /\ WrittenCalls[k].binary = log[k].bin
        /\ Len(WrittenCalls) = Len(log) => s2c = <<>>

\* the client is in a recv that has nothing to return, and so is the server
ClientBlocked ==
    cliPc \in {"await", "binary"} /\ s2c = <<>> /\ srvPc = "recv"
ServerBlocked ==
    srvPc = "recv" /\ c2s = <<>> /\ ~peerClosed

\* C24 (SpecExchange): no state is reached in which the client waits in
\* recv for a terminator or for bytes of a block while the server waits in
\* recv for the next request.
C24_NoDeadlock ==
    ~(ClientBlocked /\ ServerBlocked)

====
